---- MODULE Spec2Model ----
(***************************************************************************)
(* A model of the chess_rs engine kernel: the Board with make_move and     *)
(* undo_move (board.rs), the legal move generator (movegen.rs), FEN        *)
(* loading and printing (board.rs), the evaluator (eval.rs), the search    *)
(* (search.rs), the command loop (uci.rs) and the bit scan (bitboard.rs).  *)
(*                                                                         *)
(* Representation.  A u64 bitboard is the set of the indices of its set    *)
(* bits (a8 = 0 ... h1 = 63), so set_bit is union, clear_bit is set        *)
(* difference and & is intersection.  The                                  *)
(* Zobrist table holds random u64 keys; zobrist_hash is kept as the set    *)
(* of table entries whose XOR it is, and "^= table[sq][p]" toggles the     *)
(* membership of entry (sq, p).  Two hashes are equal for every table iff  *)
(* these sets are equal.  Option::None is written None (-1).  A string is  *)
(* a sequence of one-character strings.                                    *)
(***************************************************************************)
EXTENDS Integers, Sequences, FiniteSets, TLC

VARIABLES
    board,      \* the Board (board.rs:20-37), a record of its fields
    move_list,  \* the MoveList filled by the last gen_moves on this board
    generated,  \* whether gen_moves has run on the current board
    hist,       \* the recursion stack of perft / search: one frame per made move
    last,       \* the last operation applied, with the board it was applied to
    fen_in,     \* the FEN text handed to Board::new
    fen_out,    \* the text to_fen returned
    pc,         \* position of the driver: "play", "fen", "loaded", "printed", "search", "found"
    search,     \* the result of find_best_move
    uci,        \* the command loop of uci(): the lines read and the line being handled
    deepen,     \* the frame of iterative_deepening and the clock it reads
    word,       \* a u64 handed to lsb_idx / pop_lsb and what the call returned
    magic       \* the magic table init fills for one square and the lookup read from it

vars ==
    <<board, move_list, generated, hist, last, fen_in, fen_out, pc, search, uci, deepen, word,
      magic>>

None == -1

\* ------------------------------------------------------------------ bounds

\* the deepest line of made moves the play specification explores
MaxPly == 2

\* the deepest search find_best_move is asked for
MaxSearchDepth == 2

\* the deepest search asked for on the positions of few men
MaxAlphaBetaDepth == 3

\* the largest max_depth iterative_deepening is called with
MaxDeepenDepth == 2

\* the largest max_time_millis iterative_deepening is called with
MaxDeadline == 2

\* the latest reading of the clock of iterative_deepening, in milliseconds
MaxClock == 2

\* ------------------------------------------------------------- bitboards

AllSquares == 0 .. 63

Min(S) == CHOOSE x \in S : \A y \in S : x <= y

\* The move generator reads its bitboards through lsb_idx and pop_lsb.  It is modelled
\* with the index these calls are written to return, the lowest set bit: LowestBit for
\* one call, BitsOf for a loop of pop_lsb until the bitboard is empty.  What the two
\* calls compute on a u64 is lsb_idx and pop_lsb further down.
RECURSIVE BitsOf(_)
BitsOf(bb) ==
    IF bb = {} THEN <<>>
    ELSE LET i == Min(bb) IN <<i>> \o BitsOf(bb \ {i})

LowestBit(bb) == Min(bb)

count_1s(bb) == Cardinality(bb)

set_bit(bb, idx) == bb \cup {idx}

clear_bit(bb, idx) == bb \ {idx}

is_bit_set(bb, idx) == idx \in bb

\* bb >> n and bb << n on 64 bits: bits shifted out are lost
ShiftRight(bb, n) == {s - n : s \in {t \in bb : t - n >= 0}}

ShiftLeft(bb, n) == {s + n : s \in {t \in bb : t + n <= 63}}

\* --------------------------------------------------------------- squares

rank(sq) == sq \div 8

file(sq) == sq % 8

from_rf(r, f) == r * 8 + f

valid_rf(r, f) == r \in 0 .. 7 /\ f \in 0 .. 7

FileLetters == <<"a", "b", "c", "d", "e", "f", "g", "h">>

Digits == <<"0", "1", "2", "3", "4", "5", "6", "7", "8", "9">>

DigitValue(c) == CHOOSE d \in 0 .. 9 : Digits[d + 1] = c

IsDigit(c) == \E d \in 0 .. 9 : Digits[d + 1] = c

\* Square::notation: file letter, then 8 - rank
notation(sq) == <<FileLetters[file(sq) + 1], Digits[(8 - rank(sq)) + 1]>>

\* Square::from_notation: the position of the first character in "abcdefgh" and the
\* digit after it; anything else makes an unwrap fail, written None here
from_notation(str) ==
    IF Len(str) >= 2 /\ (\E f \in 1 .. 8 : FileLetters[f] = str[1]) /\ IsDigit(str[2])
       /\ DigitValue(str[2]) \in 1 .. 8
    THEN from_rf(8 - DigitValue(str[2]), (CHOOSE f \in 1 .. 8 : FileLetters[f] = str[1]) - 1)
    ELSE None

A8 == 0
H8 == 7
A1 == 56
H1 == 63
E8 == 4
E1 == 60
C8 == 2
D8 == 3
F8 == 5
G8 == 6
C1 == 58
D1 == 59
F1 == 61
G1 == 62

\* ---------------------------------------------------------------- pieces

White == 1
Black == 0

enemy(color) == IF color = White THEN Black ELSE White

as_letter(color) == IF color = White THEN "w" ELSE "b"

WhitePawn == 0
WhiteKnight == 1
WhiteBishop == 2
WhiteRook == 3
WhiteQueen == 4
WhiteKing == 5
BlackPawn == 6
BlackKnight == 7
BlackBishop == 8
BlackRook == 9
BlackQueen == 10
BlackKing == 11

Pieces == 0 .. 11

color_of(piece) == IF piece < 6 THEN White ELSE Black

PieceNotation == <<"P", "N", "B", "R", "Q", "K", "p", "n", "b", "r", "q", "k">>

piece_notation(piece) == PieceNotation[piece + 1]

is_pawn(piece) == piece \in {WhitePawn, BlackPawn}
is_knight(piece) == piece \in {WhiteKnight, BlackKnight}
is_bishop(piece) == piece \in {WhiteBishop, BlackBishop}
is_rook(piece) == piece \in {WhiteRook, BlackRook}
is_queen(piece) == piece \in {WhiteQueen, BlackQueen}
is_king(piece) == piece \in {WhiteKing, BlackKing}

pawn(color) == IF color = White THEN WhitePawn ELSE BlackPawn
knight(color) == IF color = White THEN WhiteKnight ELSE BlackKnight
bishop(color) == IF color = White THEN WhiteBishop ELSE BlackBishop
rook(color) == IF color = White THEN WhiteRook ELSE BlackRook
queen(color) == IF color = White THEN WhiteQueen ELSE BlackQueen
king(color) == IF color = White THEN WhiteKing ELSE BlackKing

\* ----------------------------------------------------------------- moves

MOVE_TYPE_CASTLE == 4
MOVE_TYPE_EN_PASSANT == 8
MOVE_TYPE_PROMOTION == 12

MOVE_PROMOTION_PIECE_KNIGHT == 0
MOVE_PROMOTION_PIECE_BISHOP == 1
MOVE_PROMOTION_PIECE_ROOK == 2
MOVE_PROMOTION_PIECE_QUEEN == 3

MOVE_CASTLE_SIDE_QS == 0
MOVE_CASTLE_SIDE_KS == 1

\* a Move is a u16: end:6 | start:6 | type:2 | piece:2
get_move_type(m) == ((m \div 4) % 4) * 4

get_move_piece(m) == m % 4

get_move_start(m) == (m \div 16) % 64

get_move_end(m) == (m \div 1024) % 64

new_move(start, end, flags) == end * 1024 + start * 16 + flags

PromotionLetters == <<"n", "b", "r", "q">>

move_to_string(m) ==
    LET start == get_move_start(m)
        end == get_move_end(m)
        move_type == get_move_type(m)
        end_r == IF rank(end) = 3 THEN 2 ELSE 5
        dest == IF move_type = MOVE_TYPE_EN_PASSANT
                THEN notation(from_rf(end_r, file(end)))
                ELSE notation(end)
    IN notation(start) \o dest
       \o (IF move_type = MOVE_TYPE_PROMOTION
           THEN <<PromotionLetters[get_move_piece(m) + 1]>> ELSE <<>>)

\* ----------------------------------------------------------------- board

BLACK_CASTLE_QS == 1
BLACK_CASTLE_KS == 2
WHITE_CASTLE_QS == 4
WHITE_CASTLE_KS == 8

WHITE_CASTLE == 12
BLACK_CASTLE == 3

\* mask & bit != 0, for one of the four single-bit castling constants
HasBit(mask, bit) == (mask \div bit) % 2 = 1

\* mask |= bit
OrBit(mask, bit) == IF HasBit(mask, bit) THEN mask ELSE mask + bit

\* mask &= !bit
AndNotBit(mask, bit) == IF HasBit(mask, bit) THEN mask - bit ELSE mask

\* the entry zobrist_table[sq][piece], by its position in the table
ZKey(sq, piece) == sq * 12 + piece

\* hash ^ key
Xor(hash, key) == IF key \in hash THEN hash \ {key} ELSE hash \cup {key}

\* the Board literal of Board::new, before load_fen
EmptyBoard ==
    [current_color |-> White,
     fifty_move |-> 0,
     full_move_count |-> 0,
     castling |-> 15,
     en_passant |-> None,
     pieces |-> [s \in AllSquares |-> None],
     piece_bitboards |-> [p \in Pieces |-> {}],
     combined_bitboards |-> [c \in {Black, White} |-> {}],
     zobrist_hash |-> {}]

zero_boards(b) ==
    [b EXCEPT !.piece_bitboards = [p \in Pieces |-> {}],
              !.combined_bitboards = [c \in {Black, White} |-> {}],
              !.pieces = [s \in AllSquares |-> None]]

get_occupancy(b) == b.combined_bitboards[White] \cup b.combined_bitboards[Black]

can_castle_qs(b, color) ==
    IF color = White THEN HasBit(b.castling, WHITE_CASTLE_QS)
    ELSE HasBit(b.castling, BLACK_CASTLE_QS)

can_castle_ks(b, color) ==
    IF color = White THEN HasBit(b.castling, WHITE_CASTLE_KS)
    ELSE HasBit(b.castling, BLACK_CASTLE_KS)

distance(a, b) == IF a > b THEN a - b ELSE b - a

disable_castle_for_color(castling, color) ==
    IF color = White
    THEN AndNotBit(AndNotBit(castling, WHITE_CASTLE_KS), WHITE_CASTLE_QS)
    ELSE AndNotBit(AndNotBit(castling, BLACK_CASTLE_KS), BLACK_CASTLE_QS)

disable_castle_from_sq(castling, sq) ==
    CASE sq = A1 -> AndNotBit(castling, WHITE_CASTLE_QS)
      [] sq = H1 -> AndNotBit(castling, WHITE_CASTLE_KS)
      [] sq = A8 -> AndNotBit(castling, BLACK_CASTLE_QS)
      [] sq = H8 -> AndNotBit(castling, BLACK_CASTLE_KS)
      [] OTHER -> castling

\* ------------------------------------------------------------------- FEN

\* str::split_whitespace
RECURSIVE SplitWs(_, _)
SplitWs(str, cur) ==
    IF str = <<>> THEN (IF cur = <<>> THEN <<>> ELSE <<cur>>)
    ELSE IF Head(str) = " "
         THEN (IF cur = <<>> THEN <<>> ELSE <<cur>>) \o SplitWs(Tail(str), <<>>)
         ELSE SplitWs(Tail(str), Append(cur, Head(str)))

split_whitespace(str) == SplitWs(str, <<>>)

\* str::parse::<usize>: None when the text is not a decimal number
RECURSIVE ParseDigits(_, _)
ParseDigits(str, acc) ==
    IF str = <<>> THEN acc
    ELSE ParseDigits(Tail(str), acc * 10 + DigitValue(Head(str)))

parse_usize(str) ==
    IF str # <<>> /\ \A i \in 1 .. Len(str) : IsDigit(str[i])
    THEN ParseDigits(str, 0)
    ELSE None

\* usize::to_string
RECURSIVE to_string(_)
to_string(n) ==
    IF n < 10 THEN <<Digits[n + 1]>>
    ELSE to_string(n \div 10) \o <<Digits[(n % 10) + 1]>>

FenPieceOf(c) ==
    IF \E p \in Pieces : PieceNotation[p + 1] = c
    THEN CHOOSE p \in Pieces : PieceNotation[p + 1] = c
    ELSE None

\* the placement loop of load_fen (board.rs:57-96); err is set by an unrecognised character
RECURSIVE FenBoardLoop(_, _, _, _)
FenBoardLoop(arg, pos, square, b) ==
    IF ~(square < 64 /\ pos < Len(arg)) THEN [err |-> FALSE, square |-> square, board |-> b]
    ELSE LET c == arg[pos + 1]
             piece == FenPieceOf(c)
         IN IF piece # None
            THEN FenBoardLoop(arg, pos + 1, square + 1,
                     [b EXCEPT !.piece_bitboards[piece] = set_bit(@, square),
                               !.pieces[square] = piece])
            ELSE IF IsDigit(c) /\ DigitValue(c) \in 1 .. 8
                 THEN FenBoardLoop(arg, pos + 1, square + DigitValue(c), b)
                 ELSE IF c \in {"/", " "}
                      THEN FenBoardLoop(arg, pos + 1, square, b)
                      ELSE [err |-> TRUE, square |-> square, board |-> b]

\* the castling loop of load_fen (board.rs:114-124)
RECURSIVE FenCastlingLoop(_, _)
FenCastlingLoop(arg, castling) ==
    IF arg = <<>> THEN castling
    ELSE LET c == Head(arg)
         IN CASE c = "q" -> FenCastlingLoop(Tail(arg), OrBit(castling, BLACK_CASTLE_QS))
              [] c = "k" -> FenCastlingLoop(Tail(arg), OrBit(castling, BLACK_CASTLE_KS))
              [] c = "Q" -> FenCastlingLoop(Tail(arg), OrBit(castling, WHITE_CASTLE_QS))
              [] c = "K" -> FenCastlingLoop(Tail(arg), OrBit(castling, WHITE_CASTLE_KS))
              [] c = "-" -> castling
              [] OTHER -> None

CombinedOf(b, color) ==
    b.piece_bitboards[pawn(color)] \cup b.piece_bitboards[knight(color)]
    \cup b.piece_bitboards[bishop(color)] \cup b.piece_bitboards[rook(color)]
    \cup b.piece_bitboards[queen(color)] \cup b.piece_bitboards[king(color)]

\* Board::load_fen on the Board b.  status is "ok", "err" (Err returned) or "panic"
\* (an unwrap failed); board is the Board as the call left it.
load_fen(b, fen) ==
    LET b0 == zero_boards(b)
        args == split_whitespace(fen)
    IN IF Len(args) # 6 THEN [status |-> "err", board |-> b0]
       ELSE
       LET placed == FenBoardLoop(args[1], 0, 0, b0)
           b1 == placed.board
       IN IF placed.err \/ placed.square < 64 THEN [status |-> "err", board |-> b1]
          ELSE IF args[2][1] \notin {"w", "b"} THEN [status |-> "err", board |-> b1]
          ELSE
          LET b2 == [b1 EXCEPT !.current_color = IF args[2][1] = "w" THEN White ELSE Black]
              castling == FenCastlingLoop(args[3], 0)
          IN IF castling = None THEN [status |-> "err", board |-> [b2 EXCEPT !.castling = 0]]
             ELSE
             LET b3 == [b2 EXCEPT !.castling = castling]
                 ep == IF args[4] = <<"-">> THEN None ELSE from_notation(args[4])
             IN IF args[4] # <<"-">> /\ ep = None THEN [status |-> "panic", board |-> b3]
                ELSE IF parse_usize(args[5]) = None
                     THEN [status |-> "panic", board |-> [b3 EXCEPT !.en_passant = ep]]
                ELSE IF parse_usize(args[6]) = None
                     THEN [status |-> "panic",
                           board |-> [b3 EXCEPT !.en_passant = ep,
                                                !.fifty_move = parse_usize(args[5])]]
                ELSE
                LET b4 == [b3 EXCEPT !.en_passant = ep,
                                     !.fifty_move = parse_usize(args[5]),
                                     !.full_move_count = parse_usize(args[6])]
                IN [status |-> "ok",
                    board |-> [b4 EXCEPT !.combined_bitboards =
                                  [c \in {Black, White} |-> CombinedOf(b4, c)]]]

\* the hash Board::new computes after a successful load (board.rs:804-808): the loop
\* over the squares from sq on XORs the key of every piece it meets into hash, and no
\* two squares share a key
InitHashKeys(pieces, sq) == {ZKey(s, pieces[s]) : s \in {t \in sq .. 63 : pieces[t] # None}}

InitHash(pieces, sq, hash) ==
    (hash \ InitHashKeys(pieces, sq)) \cup (InitHashKeys(pieces, sq) \ hash)

\* Board::new
BoardNew(fen) ==
    LET r == load_fen(EmptyBoard, fen)
    IN IF r.status = "ok"
       THEN [status |-> "ok",
             board |-> [r.board EXCEPT !.zobrist_hash = InitHash(r.board.pieces, 0, @)]]
       ELSE r

\* the placement loop of to_fen (board.rs:717-748)
RECURSIVE ToFenLoop(_, _, _)
ToFenLoop(pieces, square, empty) ==
    IF square = 64 THEN <<>>
    ELSE LET piece == pieces[square]
             here == IF piece # None
                     THEN (IF empty # 0 THEN to_string(empty) ELSE <<>>)
                          \o <<piece_notation(piece)>>
                     ELSE <<>>
             empty1 == IF piece # None THEN 0 ELSE empty + 1
             row_end == file(square) = 7
             tail == IF row_end
                     THEN (IF empty1 # 0 THEN to_string(empty1) ELSE <<>>)
                          \o (IF rank(square) < 7 THEN <<"/">> ELSE <<>>)
                     ELSE <<>>
         IN here \o tail \o ToFenLoop(pieces, square + 1, IF row_end THEN 0 ELSE empty1)

\* the castling field written white first, king side first
ToFenCastlingKQkq(castling) ==
    IF castling = 0 THEN <<"-">>
    ELSE (IF HasBit(castling, WHITE_CASTLE_KS) THEN <<"K">> ELSE <<>>)
         \o (IF HasBit(castling, WHITE_CASTLE_QS) THEN <<"Q">> ELSE <<>>)
         \o (IF HasBit(castling, BLACK_CASTLE_KS) THEN <<"k">> ELSE <<>>)
         \o (IF HasBit(castling, BLACK_CASTLE_QS) THEN <<"q">> ELSE <<>>)

\* the castling field of to_fen (board.rs:752-767)
ToFenCastling(castling) ==
    IF castling = 0 THEN <<"-">>
    ELSE (IF HasBit(castling, WHITE_CASTLE_QS) THEN <<"Q">> ELSE <<>>)
         \o (IF HasBit(castling, BLACK_CASTLE_QS) THEN <<"q">> ELSE <<>>)
         \o (IF HasBit(castling, WHITE_CASTLE_KS) THEN <<"K">> ELSE <<>>)
         \o (IF HasBit(castling, BLACK_CASTLE_KS) THEN <<"k">> ELSE <<>>)

\* Board::to_fen
to_fen(b) ==
    ToFenLoop(b.pieces, 0, 0)
    \o <<" ", as_letter(b.current_color), " ">>
    \o ToFenCastling(b.castling)
    \o <<" ">> \o (IF b.en_passant # None THEN notation(b.en_passant) ELSE <<"-">>)
    \o <<" ">> \o to_string(b.fifty_move)
    \o <<" ">> \o to_string(b.full_move_count)

\* ------------------------------------------------------- make_move / undo

\* MoveBits with the line for the combined bitboard left out
MoveBitsPieceOnly(b, piece, color, from, to) ==
    [b EXCEPT !.piece_bitboards[piece] = set_bit(clear_bit(@, from), to)]

\* get_bb_mut(piece).clear_bit(from).set_bit(to) together with the same change of
\* get_combined_bb_mut(color)
MoveBits(b, piece, color, from, to) ==
    [b EXCEPT !.piece_bitboards[piece] = set_bit(clear_bit(@, from), to),
              !.combined_bitboards[color] = set_bit(clear_bit(@, from), to)]

\* get_bb_mut(piece).set_bit(to).clear_bit(from), the order undo_move uses
MoveBitsBack(b, piece, color, to, from) ==
    [b EXCEPT !.piece_bitboards[piece] = clear_bit(set_bit(@, to), from),
              !.combined_bitboards[color] = clear_bit(set_bit(@, to), from)]

\* RemoveCaptured without the test for a captured rook
RemoveCapturedKeepsRight(b, end_piece, end, enemy_color) ==
    IF end_piece = None THEN b
    ELSE [b EXCEPT !.zobrist_hash = Xor(@, ZKey(end, end_piece)),
                   !.piece_bitboards[end_piece] = clear_bit(@, end),
                   !.combined_bitboards[enemy_color] = clear_bit(@, end)]

\* the removal of a captured piece from end in the promotion and default arms
\* (board.rs:342-356, 382-396)
RemoveCaptured(b, end_piece, end, enemy_color) ==
    IF end_piece = None THEN b
    ELSE [b EXCEPT !.zobrist_hash = Xor(@, ZKey(end, end_piece)),
                   !.piece_bitboards[end_piece] = clear_bit(@, end),
                   !.combined_bitboards[enemy_color] = clear_bit(@, end),
                   !.castling = IF is_rook(end_piece) THEN disable_castle_from_sq(@, end)
                                ELSE @]

\* the en-passant arm of make_move (board.rs:211-245)
MakeEnPassant(b, start, end, friendly_color, enemy_color) ==
    LET friendly_pawn == pawn(friendly_color)
        enemy_pawn == pawn(enemy_color)
        en_passant_sq == b.en_passant
    IN [b EXCEPT
          !.zobrist_hash = Xor(Xor(@, ZKey(en_passant_sq, friendly_pawn)), ZKey(end, enemy_pawn)),
          !.piece_bitboards =
              [@ EXCEPT ![friendly_pawn] = set_bit(clear_bit(@, start), en_passant_sq),
                        ![enemy_pawn] = clear_bit(@, end)],
          !.combined_bitboards =
              [@ EXCEPT ![friendly_color] = set_bit(clear_bit(@, start), en_passant_sq),
                        ![enemy_color] = clear_bit(@, end)],
          !.pieces = [@ EXCEPT ![en_passant_sq] = friendly_pawn, ![start] = None, ![end] = None],
          !.en_passant = None]

\* MakeCastle with the two hash lines of the rook left out
MakeCastleKingHashOnly(b, start, end, piece, friendly_color) ==
    LET friendly_king == king(friendly_color)
        friendly_rook == rook(friendly_color)
        offset == (start \div 8) * 8
        rook_from == IF piece = MOVE_CASTLE_SIDE_QS THEN offset ELSE offset + 7
        rook_to == IF piece = MOVE_CASTLE_SIDE_QS THEN offset + 3 ELSE offset + 5
        b1 == [b EXCEPT !.zobrist_hash = Xor(@, ZKey(end, friendly_king))]
        b2 == MoveBits(b1, friendly_king, friendly_color, start, end)
        b4 == MoveBits(b2, friendly_rook, friendly_color, rook_from, rook_to)
        b5 == [b4 EXCEPT !.pieces = [@ EXCEPT ![rook_to] = friendly_rook, ![rook_from] = None]]
    IN [b5 EXCEPT !.castling = disable_castle_for_color(@, friendly_color),
                  !.pieces = [@ EXCEPT ![end] = friendly_king, ![start] = None],
                  !.en_passant = None]

\* the castle arm of make_move (board.rs:246-326)
MakeCastle(b, start, end, piece, friendly_color) ==
    LET friendly_king == king(friendly_color)
        friendly_rook == rook(friendly_color)
        offset == (start \div 8) * 8
        rook_from == IF piece = MOVE_CASTLE_SIDE_QS THEN offset ELSE offset + 7
        rook_to == IF piece = MOVE_CASTLE_SIDE_QS THEN offset + 3 ELSE offset + 5
        b1 == [b EXCEPT !.zobrist_hash = Xor(@, ZKey(end, friendly_king))]
        b2 == MoveBits(b1, friendly_king, friendly_color, start, end)
        b3 == [b2 EXCEPT !.zobrist_hash =
                   Xor(Xor(@, ZKey(rook_from, friendly_rook)), ZKey(rook_to, friendly_rook))]
        b4 == MoveBits(b3, friendly_rook, friendly_color, rook_from, rook_to)
        b5 == [b4 EXCEPT !.pieces = [@ EXCEPT ![rook_to] = friendly_rook, ![rook_from] = None]]
    IN [b5 EXCEPT !.castling = disable_castle_for_color(@, friendly_color),
                  !.pieces = [@ EXCEPT ![end] = friendly_king, ![start] = None],
                  !.en_passant = None]

\* the promotion arm of make_move (board.rs:327-374)
MakePromotion(b, start, end, piece, end_piece, friendly_color, enemy_color) ==
    LET friendly_pawn == pawn(friendly_color)
        promotion_piece ==
            CASE piece = MOVE_PROMOTION_PIECE_KNIGHT -> knight(friendly_color)
              [] piece = MOVE_PROMOTION_PIECE_BISHOP -> bishop(friendly_color)
              [] piece = MOVE_PROMOTION_PIECE_ROOK -> rook(friendly_color)
              [] OTHER -> queen(friendly_color)
        b1 == RemoveCaptured(b, end_piece, end, enemy_color)
    IN [b1 EXCEPT
          !.zobrist_hash = Xor(@, ZKey(end, promotion_piece)),
          !.piece_bitboards =
              [[@ EXCEPT ![friendly_pawn] = clear_bit(@, start)]
                  EXCEPT ![promotion_piece] = set_bit(@, end)],
          !.combined_bitboards[friendly_color] = set_bit(clear_bit(@, start), end),
          !.pieces = [@ EXCEPT ![start] = None, ![end] = promotion_piece],
          !.en_passant = None]

\* MakeDefault that sets the target after a move of any piece over two ranks
MakeDefaultTargetForAnyPiece(b, start, end, start_piece, end_piece, friendly_color, enemy_color) ==
    LET b1 == [b EXCEPT !.en_passant =
                   IF distance(end, start) = 16 THEN (end + start) \div 2 ELSE None]
        b2 == RemoveCaptured(b1, end_piece, end, enemy_color)
        b3 == [b2 EXCEPT !.castling =
                   IF is_king(start_piece) THEN disable_castle_for_color(@, friendly_color)
                   ELSE IF is_rook(start_piece) THEN disable_castle_from_sq(@, start)
                   ELSE @]
        b4 == [b3 EXCEPT !.zobrist_hash = Xor(@, ZKey(end, start_piece))]
        b5 == MoveBits(b4, start_piece, friendly_color, start, end)
    IN [b5 EXCEPT !.pieces = [@ EXCEPT ![end] = b5.pieces[start], ![start] = None]]

\* the default arm of make_move (board.rs:375-421)
MakeDefault(b, start, end, start_piece, end_piece, friendly_color, enemy_color) ==
    LET b1 == [b EXCEPT !.en_passant =
                   IF is_pawn(start_piece) /\ distance(end, start) = 16
                   THEN (end + start) \div 2 ELSE None]
        b2 == RemoveCaptured(b1, end_piece, end, enemy_color)
        b3 == [b2 EXCEPT !.castling =
                   IF is_king(start_piece) THEN disable_castle_for_color(@, friendly_color)
                   ELSE IF is_rook(start_piece) THEN disable_castle_from_sq(@, start)
                   ELSE @]
        b4 == [b3 EXCEPT !.zobrist_hash = Xor(@, ZKey(end, start_piece))]
        b5 == MoveBits(b4, start_piece, friendly_color, start, end)
    IN [b5 EXCEPT !.pieces = [@ EXCEPT ![end] = b5.pieces[start], ![start] = None]]

\* make_move counting the full moves: the counter goes up after a move of Black
make_move_counts_full_moves(b, my_move) ==
    LET start == get_move_start(my_move)
        end == get_move_end(my_move)
        piece == get_move_piece(my_move)
        friendly_color == b.current_color
        enemy_color == enemy(b.current_color)
        info == [castling |-> b.castling,
                 fifty_move |-> b.fifty_move,
                 en_passant |-> b.en_passant,
                 captured |-> b.pieces[end]]
        start_piece == b.pieces[start]
        end_piece == b.pieces[end]
        b1 == [b EXCEPT !.zobrist_hash = Xor(@, ZKey(start, start_piece)),
                        !.fifty_move = IF is_pawn(start_piece) \/ end_piece # None
                                       THEN 0 ELSE @ + 1]
        move_type == get_move_type(my_move)
        b2 == CASE move_type = MOVE_TYPE_EN_PASSANT ->
                     MakeEnPassant(b1, start, end, friendly_color, enemy_color)
                [] move_type = MOVE_TYPE_CASTLE ->
                     MakeCastle(b1, start, end, piece, friendly_color)
                [] move_type = MOVE_TYPE_PROMOTION ->
                     MakePromotion(b1, start, end, piece, end_piece, friendly_color, enemy_color)
                [] OTHER ->
                     MakeDefault(b1, start, end, start_piece, end_piece, friendly_color,
                                 enemy_color)
    IN [board |-> [b2 EXCEPT !.current_color = enemy(@),
                             !.full_move_count = IF friendly_color = Black THEN @ + 1 ELSE @],
        info |-> info]

\* Board::make_move: the Board after the move and the UndoInfo it filled in
make_move(b, my_move) ==
    LET start == get_move_start(my_move)
        end == get_move_end(my_move)
        piece == get_move_piece(my_move)
        friendly_color == b.current_color
        enemy_color == enemy(b.current_color)
        info == [castling |-> b.castling,
                 fifty_move |-> b.fifty_move,
                 en_passant |-> b.en_passant,
                 captured |-> b.pieces[end]]
        start_piece == b.pieces[start]
        end_piece == b.pieces[end]
        b1 == [b EXCEPT !.zobrist_hash = Xor(@, ZKey(start, start_piece)),
                        !.fifty_move = IF is_pawn(start_piece) \/ end_piece # None
                                       THEN 0 ELSE @ + 1]
        move_type == get_move_type(my_move)
        b2 == CASE move_type = MOVE_TYPE_EN_PASSANT ->
                     MakeEnPassant(b1, start, end, friendly_color, enemy_color)
                [] move_type = MOVE_TYPE_CASTLE ->
                     MakeCastle(b1, start, end, piece, friendly_color)
                [] move_type = MOVE_TYPE_PROMOTION ->
                     MakePromotion(b1, start, end, piece, end_piece, friendly_color, enemy_color)
                [] OTHER ->
                     MakeDefault(b1, start, end, start_piece, end_piece, friendly_color,
                                 enemy_color)
    IN [board |-> [b2 EXCEPT !.current_color = enemy(@)], info |-> info]

\* RestoreCaptured without the hash line
RestoreCapturedNoHash(b, captured_piece, end, enemy_color) ==
    IF captured_piece = None THEN b
    ELSE [b EXCEPT !.piece_bitboards[captured_piece] = set_bit(@, end),
                   !.combined_bitboards[enemy_color] = set_bit(@, end)]

\* the restoring of a captured piece on end in the promotion and default arms of
\* undo_move (board.rs:587-596, 620-629)
RestoreCaptured(b, captured_piece, end, enemy_color) ==
    IF captured_piece = None THEN b
    ELSE [b EXCEPT !.zobrist_hash = Xor(@, ZKey(end, captured_piece)),
                   !.piece_bitboards[captured_piece] = set_bit(@, end),
                   !.combined_bitboards[enemy_color] = set_bit(@, end)]

\* the en-passant arm of undo_move (board.rs:459-495)
UndoEnPassant(b, start, end, friendly_color, enemy_color) ==
    LET friendly_pawn == pawn(friendly_color)
        enemy_pawn == pawn(enemy_color)
        en_passant_sq == b.en_passant
    IN [b EXCEPT
          !.zobrist_hash = Xor(Xor(Xor(@, ZKey(start, friendly_pawn)),
                                   ZKey(en_passant_sq, friendly_pawn)),
                               ZKey(end, enemy_pawn)),
          !.piece_bitboards =
              [@ EXCEPT ![friendly_pawn] = clear_bit(set_bit(@, start), en_passant_sq),
                        ![enemy_pawn] = set_bit(@, end)],
          !.combined_bitboards =
              [@ EXCEPT ![friendly_color] = clear_bit(set_bit(@, start), en_passant_sq),
                        ![enemy_color] = set_bit(@, end)],
          !.pieces = [@ EXCEPT ![en_passant_sq] = None, ![start] = friendly_pawn,
                               ![end] = enemy_pawn]]

\* the castle arm of undo_move (board.rs:496-564)
UndoCastle(b, start, end, piece, friendly_color) ==
    LET friendly_king == king(friendly_color)
        friendly_rook == rook(friendly_color)
        offset == (start \div 8) * 8
        rook_from == IF piece = MOVE_CASTLE_SIDE_QS THEN offset ELSE offset + 7
        rook_to == IF piece = MOVE_CASTLE_SIDE_QS THEN offset + 3 ELSE offset + 5
        b1 == [b EXCEPT !.zobrist_hash =
                   Xor(Xor(@, ZKey(start, friendly_king)), ZKey(end, friendly_king))]
        b2 == MoveBitsBack(b1, friendly_king, friendly_color, start, end)
        b3 == [b2 EXCEPT !.pieces = [@ EXCEPT ![start] = friendly_king, ![end] = None]]
        b4 == [b3 EXCEPT !.zobrist_hash =
                   Xor(Xor(@, ZKey(rook_from, friendly_rook)), ZKey(rook_to, friendly_rook))]
        b5 == MoveBitsBack(b4, friendly_rook, friendly_color, rook_from, rook_to)
    IN [b5 EXCEPT !.pieces = [@ EXCEPT ![rook_to] = None, ![rook_from] = friendly_rook]]

\* the promotion arm of undo_move (board.rs:565-597)
UndoPromotion(b, start, end, captured_piece, friendly_color, enemy_color) ==
    LET friendly_pawn == pawn(friendly_color)
        promotion_piece == b.pieces[end]
        b1 == [b EXCEPT
                 !.zobrist_hash = Xor(Xor(@, ZKey(start, friendly_pawn)),
                                      ZKey(end, promotion_piece)),
                 !.piece_bitboards =
                     [[@ EXCEPT ![friendly_pawn] = set_bit(@, start)]
                         EXCEPT ![promotion_piece] = clear_bit(@, end)],
                 !.combined_bitboards[friendly_color] = clear_bit(set_bit(@, start), end),
                 !.pieces = [@ EXCEPT ![start] = friendly_pawn, ![end] = captured_piece]]
    IN RestoreCaptured(b1, captured_piece, end, enemy_color)

\* the default arm of undo_move (board.rs:598-630)
UndoDefault(b, start, end, captured_piece, friendly_color, enemy_color) ==
    LET end_piece == b.pieces[end]
        b1 == [b EXCEPT !.zobrist_hash =
                   Xor(Xor(@, ZKey(start, end_piece)), ZKey(end, end_piece))]
        b2 == MoveBitsBack(b1, end_piece, friendly_color, start, end)
        b3 == [b2 EXCEPT !.pieces = [@ EXCEPT ![start] = b2.pieces[end],
                                              ![end] = captured_piece]]
    IN RestoreCaptured(b3, captured_piece, end, enemy_color)

\* Board::undo_move
undo_move(b, my_move, info) ==
    LET start == get_move_start(my_move)
        end == get_move_end(my_move)
        piece == get_move_piece(my_move)
        friendly_color == enemy(b.current_color)
        enemy_color == b.current_color
        b1 == [b EXCEPT !.current_color = enemy(@),
                        !.castling = info.castling,
                        !.fifty_move = info.fifty_move,
                        !.en_passant = info.en_passant]
        captured_piece == info.captured
        move_type == get_move_type(my_move)
    IN CASE move_type = MOVE_TYPE_EN_PASSANT ->
              UndoEnPassant(b1, start, end, friendly_color, enemy_color)
         [] move_type = MOVE_TYPE_CASTLE ->
              UndoCastle(b1, start, end, piece, friendly_color)
         [] move_type = MOVE_TYPE_PROMOTION ->
              UndoPromotion(b1, start, end, captured_piece, friendly_color, enemy_color)
         [] OTHER ->
              UndoDefault(b1, start, end, captured_piece, friendly_color, enemy_color)

\* ------------------------------------------------- move generator tables

FULL_BB == AllSquares

\* Ranks and Files are one-hot u8 masks (movegen.rs:127-149)
RanksOne == 1
RanksThree == 4
RanksSix == 32
RanksEight == 128
FilesA == 1
FilesB == 2
FilesC == 4
FilesD == 8
FilesF == 32
FilesG == 64
FilesH == 128

Pow2(i) == CASE i = 0 -> 1 [] i = 1 -> 2 [] i = 2 -> 4 [] i = 3 -> 8
             [] i = 4 -> 16 [] i = 5 -> 32 [] i = 6 -> 64 [] OTHER -> 128

\* files[1 << i] = 0x0101010101010101 << i and ranks[1 << i] = 0xff << (8 * (7 - i)),
\* and every other entry the union over the bits of its index (movegen.rs:507-520)
files ==
    [mask \in 0 .. 255 |->
        UNION {{s \in AllSquares : file(s) = i} : i \in {j \in 0 .. 7 : HasBit(mask, Pow2(j))}}]

ranks ==
    [mask \in 0 .. 255 |->
        UNION {{s \in AllSquares : rank(s) = 7 - i} : i \in {j \in 0 .. 7 : HasBit(mask, Pow2(j))}}]

not_files == [mask \in 0 .. 255 |-> AllSquares \ files[mask]]

not_ranks == [mask \in 0 .. 255 |-> AllSquares \ ranks[mask]]

\* one ray of gen_rook_moves / gen_bishop_moves: every square up to and including the
\* first occupied one
RECURSIVE Ray(_, _, _, _, _)
Ray(r, f, dr, df, occupancy) ==
    IF ~valid_rf(r, f) THEN {}
    ELSE LET pos == from_rf(r, f)
         IN IF is_bit_set(occupancy, pos) THEN {pos}
            ELSE {pos} \cup Ray(r + dr, f + df, dr, df, occupancy)

gen_rook_moves(start, occupancy) ==
    Ray(rank(start) - 1, file(start), -1, 0, occupancy)
    \cup Ray(rank(start) + 1, file(start), 1, 0, occupancy)
    \cup Ray(rank(start), file(start) - 1, 0, -1, occupancy)
    \cup Ray(rank(start), file(start) + 1, 0, 1, occupancy)

gen_bishop_moves(start, occupancy) ==
    Ray(rank(start) - 1, file(start) - 1, -1, -1, occupancy)
    \cup Ray(rank(start) + 1, file(start) - 1, 1, -1, occupancy)
    \cup Ray(rank(start) - 1, file(start) + 1, -1, 1, occupancy)
    \cup Ray(rank(start) + 1, file(start) + 1, 1, 1, occupancy)

\* the relevance masks: the rays without their edge squares (movegen.rs:256-328)
gen_rook_mask(start) ==
    {from_rf(r, file(start)) : r \in (1 .. rank(start) - 1) \cup (rank(start) + 1 .. 6)}
    \cup {from_rf(rank(start), f) : f \in (1 .. file(start) - 1) \cup (file(start) + 1 .. 6)}

gen_bishop_mask(start) ==
    {s \in AllSquares :
        /\ s # start
        /\ rank(s) \in 1 .. 6 /\ file(s) \in 1 .. 6
        /\ distance(rank(s), rank(start)) = distance(file(s), file(start))}

KingVectors ==
    {<<-1, -1>>, <<-1, 0>>, <<-1, 1>>, <<0, -1>>, <<0, 1>>, <<1, -1>>, <<1, 0>>, <<1, 1>>}

KnightVectors ==
    {<<-1, 2>>, <<-2, 1>>, <<1, 2>>, <<2, 1>>, <<-1, -2>>, <<-2, -1>>, <<1, -2>>, <<2, -1>>}

gen_king_moves(start) ==
    {from_rf(rank(start) + v[2], file(start) + v[1]) :
        v \in {w \in KingVectors : valid_rf(rank(start) + w[2], file(start) + w[1])}}

gen_knight_moves(start) ==
    {from_rf(rank(start) + v[2], file(start) + v[1]) :
        v \in {w \in KnightVectors : valid_rf(rank(start) + w[2], file(start) + w[1])}}

rook_masks == [s \in AllSquares |-> gen_rook_mask(s)]

bishop_masks == [s \in AllSquares |-> gen_bishop_mask(s)]

knight_moves == [s \in AllSquares |-> gen_knight_moves(s)]

king_moves == [s \in AllSquares |-> gen_king_moves(s)]

\* pawn_attacks[color][sq]: the squares a pawn of that colour on sq attacks
\* (movegen.rs:552-568)
pawn_attacks ==
    [c \in {Black, White} |-> [i \in AllSquares |->
        IF c = White
        THEN (IF rank(i) # 0 /\ file(i) # 7 THEN {i - 7} ELSE {})
             \cup (IF rank(i) # 0 /\ file(i) # 0 THEN {i - 9} ELSE {})
        ELSE (IF rank(i) # 7 /\ file(i) # 7 THEN {i + 9} ELSE {})
             \cup (IF rank(i) # 7 /\ file(i) # 0 THEN {i + 7} ELSE {})]]

\* slider_range[start][end]: the squares strictly between two squares of one rank, file
\* or diagonal (movegen.rs:571-624)
SliderRange(start, end) ==
    LET min_sq == IF start < end THEN start ELSE end
        max_sq == IF start < end THEN end ELSE start
        rank_diff == rank(max_sq) - rank(min_sq)
        file_diff == file(max_sq) - file(min_sq)
    IN IF rank(min_sq) = rank(max_sq)
       THEN {from_rf(rank(min_sq), f) : f \in file(min_sq) + 1 .. file(max_sq) - 1}
       ELSE IF file(min_sq) = file(max_sq)
       THEN {from_rf(r, file(min_sq)) : r \in rank(min_sq) + 1 .. rank(max_sq) - 1}
       ELSE IF distance(rank_diff, 0) = distance(file_diff, 0)
       THEN (IF rank_diff = file_diff
             THEN {from_rf(rank(min_sq) + k, file(min_sq) + k) : k \in 1 .. rank_diff - 1}
             ELSE {from_rf(rank(min_sq) + k, file(min_sq) - k) : k \in 1 .. rank_diff - 1})
       ELSE {}

slider_range == [a \in AllSquares |-> [b \in AllSquares |-> SliderRange(a, b)]]

\* The magic lookup.  init stores gen_bishop_moves(sq, subset) at the key of every
\* subset of the relevance mask, and the lookup reads the entry at the key of
\* occupancy & mask: with the magic numbers of the source no two subsets with different
\* attacks share a key (the fill itself is MagicFill further down), so that entry is
\* the attack stored for occupancy & mask itself.
magic_bishop_moves(sq, occupancy) == gen_bishop_moves(sq, occupancy \cap bishop_masks[sq])

magic_rook_moves(sq, occupancy) == gen_rook_moves(sq, occupancy \cap rook_masks[sq])

magic_queen_moves(sq, occupancy) ==
    magic_bishop_moves(sq, occupancy) \cup magic_rook_moves(sq, occupancy)

\* -------------------------------------------------------- move generator

\* PlayerTrait: the generator is instantiated for WhitePlayer and BlackPlayer; P is
\* the player's colour
opposite_back_rank(P) == IF P = White THEN RanksEight ELSE RanksOne

en_passant_rank(P) == IF P = White THEN RanksThree ELSE RanksSix

capture_offset(P, is_left_capture) ==
    IF P = White THEN (IF is_left_capture THEN 9 ELSE 7)
    ELSE (IF is_left_capture THEN -7 ELSE -9)

forward_offset(P) == IF P = White THEN 8 ELSE -8

\* MoveList::add_move for every square of targets, in pop_lsb order
AddMoves(ml, start, targets) ==
    LET ends == BitsOf(targets)
    IN ml \o [i \in 1 .. Len(ends) |-> new_move(start, ends[i], 0)]

\* MoveList::add_promotion
add_promotion(ml, start, end) ==
    ml \o <<new_move(start, end, MOVE_TYPE_PROMOTION + MOVE_PROMOTION_PIECE_QUEEN),
            new_move(start, end, MOVE_TYPE_PROMOTION + MOVE_PROMOTION_PIECE_ROOK),
            new_move(start, end, MOVE_TYPE_PROMOTION + MOVE_PROMOTION_PIECE_BISHOP),
            new_move(start, end, MOVE_TYPE_PROMOTION + MOVE_PROMOTION_PIECE_KNIGHT)>>

find_enemy_attackers(P, sq, b, occupancy) ==
    LET bishop_queen == b.piece_bitboards[bishop(enemy(P))] \cup b.piece_bitboards[queen(enemy(P))]
        rook_queen == b.piece_bitboards[rook(enemy(P))] \cup b.piece_bitboards[queen(enemy(P))]
    IN (magic_bishop_moves(sq, occupancy) \cap bishop_queen)
       \cup (magic_rook_moves(sq, occupancy) \cap rook_queen)
       \cup (knight_moves[sq] \cap b.piece_bitboards[knight(enemy(P))])
       \cup (king_moves[sq] \cap b.piece_bitboards[king(enemy(P))])
       \cup (pawn_attacks[P][sq] \cap b.piece_bitboards[pawn(enemy(P))])

\* is_sq_under_attack without the test for the enemy king
is_sq_under_attack_no_king(P, sq, b, occupancy) ==
    \/ knight_moves[sq] \cap b.piece_bitboards[knight(enemy(P))] # {}
    \/ pawn_attacks[P][sq] \cap b.piece_bitboards[pawn(enemy(P))] # {}
    \/ magic_bishop_moves(sq, occupancy)
         \cap (b.piece_bitboards[bishop(enemy(P))] \cup b.piece_bitboards[queen(enemy(P))]) # {}
    \/ magic_rook_moves(sq, occupancy)
         \cap (b.piece_bitboards[rook(enemy(P))] \cup b.piece_bitboards[queen(enemy(P))]) # {}

is_sq_under_attack(P, sq, b, occupancy) ==
    \/ knight_moves[sq] \cap b.piece_bitboards[knight(enemy(P))] # {}
    \/ king_moves[sq] \cap b.piece_bitboards[king(enemy(P))] # {}
    \/ pawn_attacks[P][sq] \cap b.piece_bitboards[pawn(enemy(P))] # {}
    \/ magic_bishop_moves(sq, occupancy)
         \cap (b.piece_bitboards[bishop(enemy(P))] \cup b.piece_bitboards[queen(enemy(P))]) # {}
    \/ magic_rook_moves(sq, occupancy)
         \cap (b.piece_bitboards[rook(enemy(P))] \cup b.piece_bitboards[queen(enemy(P))]) # {}

\* validate_en_passant that tests the king with the captured pawn still on the Board
validate_en_passant_keeps_pawn(P, b, king_pos, start, end, occupancy) ==
    LET en_passant_sq == b.en_passant
        b1 == [b EXCEPT
                 !.piece_bitboards =
                     [@ EXCEPT ![pawn(P)] = set_bit(clear_bit(@, start), en_passant_sq)],
                 !.combined_bitboards =
                     [@ EXCEPT ![P] = set_bit(clear_bit(@, start), en_passant_sq)]]
        occupancy1 == set_bit(clear_bit(occupancy, start), en_passant_sq)
    IN [result |-> ~is_sq_under_attack(P, king_pos, b1, occupancy1), board |-> b]

\* validate_en_passant: the capture is played on the bitboards of the Board, the king
\* is tested, and the bits are put back.  result and the Board it leaves.
validate_en_passant(P, b, king_pos, start, end, occupancy) ==
    LET en_passant_sq == b.en_passant
        b1 == [b EXCEPT
                 !.piece_bitboards =
                     [@ EXCEPT ![pawn(enemy(P))] = clear_bit(@, end),
                               ![pawn(P)] = set_bit(clear_bit(@, start), en_passant_sq)],
                 !.combined_bitboards =
                     [@ EXCEPT ![enemy(P)] = clear_bit(@, end),
                               ![P] = set_bit(clear_bit(@, start), en_passant_sq)]]
        occupancy1 == clear_bit(set_bit(clear_bit(occupancy, start), en_passant_sq), end)
        b2 == [b1 EXCEPT
                 !.piece_bitboards =
                     [@ EXCEPT ![pawn(enemy(P))] = set_bit(@, end),
                               ![pawn(P)] = clear_bit(set_bit(@, start), en_passant_sq)],
                 !.combined_bitboards =
                     [@ EXCEPT ![enemy(P)] = set_bit(@, end),
                               ![P] = clear_bit(set_bit(@, start), en_passant_sq)]]
    IN [result |-> ~is_sq_under_attack(P, king_pos, b1, occupancy1), board |-> b2]

\* the squares pawns_bb captures to on one side (movegen.rs:786-793, 1107-1114)
CaptureShift(P, is_left, pawns_bb) ==
    LET file_mask == not_files[IF is_left THEN FilesA ELSE FilesH]
    IN IF P = White
       THEN ShiftRight(pawns_bb \cap file_mask, IF is_left THEN 9 ELSE 7)
       ELSE ShiftLeft(pawns_bb \cap file_mask, IF is_left THEN 7 ELSE 9)

\* the loops over capture squares of add_pawn_captures, in pop_lsb order
RECURSIVE AddPawnEnds(_, _, _, _)
AddPawnEnds(ml, ends, offset, promote) ==
    IF ends = <<>> THEN ml
    ELSE AddPawnEnds(IF promote THEN add_promotion(ml, offset + Head(ends), Head(ends))
                     ELSE Append(ml, new_move(offset + Head(ends), Head(ends), 0)),
                     Tail(ends), offset, promote)

\* add_pawn_captures::<P, C>: the move list and the Board it leaves
add_pawn_captures(P, is_left, ml, b, occupancy, pinned, legal_captures, king_pos) ==
    LET enemy_bb == b.combined_bitboards[enemy(P)]
        pawns_bb == b.piece_bitboards[pawn(P)] \ pinned
        offset == capture_offset(P, is_left)
        back_rank == opposite_back_rank(P)
        captures0 == CaptureShift(P, is_left, pawns_bb)
        en_passant == b.en_passant
        start == en_passant + offset
        en_passant_end == en_passant + forward_offset(P)
        captures == captures0 \cap legal_captures \cap enemy_bb
        \* the rest of the function, once the en-passant capture has been validated
        Captures(v) ==
            [ml |-> AddPawnEnds(
                        AddPawnEnds(IF v.result
                                    THEN Append(ml, new_move(start, en_passant_end,
                                                             MOVE_TYPE_EN_PASSANT))
                                    ELSE ml,
                                    BitsOf(captures \cap not_ranks[back_rank]), offset, FALSE),
                        BitsOf(captures \cap ranks[back_rank]), offset, TRUE),
             board |-> v.board]
    IN IF b.en_passant # None /\ is_bit_set(captures0, en_passant)
       THEN Captures(validate_en_passant(P, b, king_pos, start, en_passant_end, occupancy))
       ELSE Captures([result |-> FALSE, board |-> b])

add_pawn_pushes(P, ml, b, occupancy, pinned, blockers) ==
    LET pawns_bb == b.piece_bitboards[pawn(P)] \ pinned
        offset == forward_offset(P)
        double_offset == offset * 2
        back_rank == opposite_back_rank(P)
        Pushes(pawn_single_moves) ==
            LET on_rank == pawn_single_moves \cap ranks[en_passant_rank(P)]
                pawn_double_moves ==
                    ((IF P = White THEN ShiftRight(on_rank, 8) ELSE ShiftLeft(on_rank, 8))
                     \ occupancy) \cap blockers
            IN AddPawnEnds(
                   AddPawnEnds(
                       AddPawnEnds(ml,
                                   BitsOf((pawn_single_moves \cap blockers)
                                          \cap not_ranks[back_rank]),
                                   offset, FALSE),
                       BitsOf((pawn_single_moves \cap blockers) \cap ranks[back_rank]),
                       offset, TRUE),
                   BitsOf(pawn_double_moves), double_offset, FALSE)
    IN Pushes((IF P = White THEN ShiftRight(pawns_bb, 8) ELSE ShiftLeft(pawns_bb, 8))
              \ occupancy)

add_pawn_moves(P, ml, b, occupancy, pinned, legal_captures, blockers, king_pos) ==
    LET Right(l) == add_pawn_captures(P, FALSE, l.ml, l.board, occupancy, pinned,
                                      legal_captures, king_pos)
        Pushes(r) == [ml |-> add_pawn_pushes(P, r.ml, r.board, occupancy, pinned, blockers),
                      board |-> r.board]
    IN Pushes(Right(add_pawn_captures(P, TRUE, ml, b, occupancy, pinned, legal_captures,
                                      king_pos)))

\* the outer loop of add_knight_moves, add_bishop_moves, add_rook_moves and
\* add_queen_moves: kind is the piece's own attack set
RECURSIVE AddPieceLoop(_, _, _, _, _)
AddPieceLoop(ml, starts, kind, occupancy, mask) ==
    IF starts = <<>> THEN ml
    ELSE LET start == Head(starts)
             attacks == CASE kind = "knight" -> knight_moves[start]
                          [] kind = "bishop" -> magic_bishop_moves(start, occupancy)
                          [] kind = "rook" -> magic_rook_moves(start, occupancy)
                          [] OTHER -> magic_queen_moves(start, occupancy)
         IN AddPieceLoop(AddMoves(ml, start, attacks \cap mask), Tail(starts), kind,
                         occupancy, mask)

add_knight_moves(P, ml, b, pinned, move_mask) ==
    AddPieceLoop(ml, BitsOf(b.piece_bitboards[knight(P)] \ pinned), "knight", {},
                 move_mask \ b.combined_bitboards[P])

add_bishop_moves(P, ml, b, occupancy, pinned, move_mask) ==
    AddPieceLoop(ml, BitsOf(b.piece_bitboards[bishop(P)] \ pinned), "bishop", occupancy,
                 move_mask \ b.combined_bitboards[P])

add_rook_moves(P, ml, b, occupancy, pinned, move_mask) ==
    AddPieceLoop(ml, BitsOf(b.piece_bitboards[rook(P)] \ pinned), "rook", occupancy,
                 move_mask \ b.combined_bitboards[P])

add_queen_moves(P, ml, b, occupancy, pinned, move_mask) ==
    AddPieceLoop(ml, BitsOf(b.piece_bitboards[queen(P)] \ pinned), "queen", occupancy,
                 move_mask \ b.combined_bitboards[P])

\* add_king_moves that tests the destinations with the king still in the occupancy
add_king_moves_keeps_king(P, ml, b, occupancy) ==
    LET king_bb == b.piece_bitboards[king(P)]
        start == LowestBit(king_bb)
        king_targets == king_moves[start] \ b.combined_bitboards[P]
    IN AddMoves(ml, start, {end \in king_targets : ~is_sq_under_attack(P, end, b, occupancy)})

\* add_king_moves: the destinations are tested on the occupancy without the king
add_king_moves(P, ml, b, occupancy) ==
    LET king_bb == b.piece_bitboards[king(P)]
        start == LowestBit(king_bb)
        occupancy1 == occupancy \ king_bb
        king_targets == king_moves[start] \ b.combined_bitboards[P]
    IN AddMoves(ml, start, {end \in king_targets : ~is_sq_under_attack(P, end, b, occupancy1)})

\* add_castling_moves without the tests of the squares the king crosses
add_castling_moves_unchecked(P, ml, b, occupancy) ==
    LET file_mask_qs == files[FilesB + FilesC + FilesD]
        file_mask_ks == files[FilesF + FilesG]
        back == ranks[IF P = White THEN RanksOne ELSE RanksEight]
        e == IF P = White THEN E1 ELSE E8
        c == IF P = White THEN C1 ELSE C8
        g == IF P = White THEN G1 ELSE G8
        qs == can_castle_qs(b, P) /\ (occupancy \cap back) \cap file_mask_qs = {}
        ks == can_castle_ks(b, P) /\ (occupancy \cap back) \cap file_mask_ks = {}
    IN ml \o (IF qs THEN <<new_move(e, c, MOVE_TYPE_CASTLE + MOVE_CASTLE_SIDE_QS)>> ELSE <<>>)
          \o (IF ks THEN <<new_move(e, g, MOVE_TYPE_CASTLE + MOVE_CASTLE_SIDE_KS)>> ELSE <<>>)

add_castling_moves(P, ml, b, occupancy) ==
    LET file_mask_qs == files[FilesB + FilesC + FilesD]
        file_mask_ks == files[FilesF + FilesG]
        back == ranks[IF P = White THEN RanksOne ELSE RanksEight]
        e == IF P = White THEN E1 ELSE E8
        c == IF P = White THEN C1 ELSE C8
        d == IF P = White THEN D1 ELSE D8
        f == IF P = White THEN F1 ELSE F8
        g == IF P = White THEN G1 ELSE G8
        qs == /\ can_castle_qs(b, P)
              /\ (occupancy \cap back) \cap file_mask_qs = {}
              /\ ~is_sq_under_attack(P, d, b, occupancy)
              /\ ~is_sq_under_attack(P, c, b, occupancy)
        ks == /\ can_castle_ks(b, P)
              /\ (occupancy \cap back) \cap file_mask_ks = {}
              /\ ~is_sq_under_attack(P, f, b, occupancy)
              /\ ~is_sq_under_attack(P, g, b, occupancy)
    IN ml \o (IF qs THEN <<new_move(e, c, MOVE_TYPE_CASTLE + MOVE_CASTLE_SIDE_QS)>> ELSE <<>>)
          \o (IF ks THEN <<new_move(e, g, MOVE_TYPE_CASTLE + MOVE_CASTLE_SIDE_KS)>> ELSE <<>>)

\* ---------------------------------------------------------- pinned pieces

add_pinned_pawn_pushes(P, ml, occupancy, pinned_pos, mask) ==
    LET pawns_bb == {pinned_pos}
        back_rank == opposite_back_rank(P)
        pawn_single_moves ==
            (IF P = White THEN ShiftRight(pawns_bb, 8) ELSE ShiftLeft(pawns_bb, 8)) \ occupancy
        promotion_moves == (pawn_single_moves \cap ranks[back_rank]) \cap mask
        non_promotion_moves == (pawn_single_moves \cap not_ranks[back_rank]) \cap mask
        ml1 == IF non_promotion_moves # {}
               THEN Append(ml, new_move(pinned_pos, LowestBit(non_promotion_moves), 0))
               ELSE ml
        on_rank == pawn_single_moves \cap ranks[en_passant_rank(P)]
        pawn_double_moves ==
            ((IF P = White THEN ShiftRight(on_rank, 8) ELSE ShiftLeft(on_rank, 8)) \cap mask)
            \ occupancy
    IN IF promotion_moves # {}
       THEN add_promotion(ml, pinned_pos, LowestBit(promotion_moves))
       ELSE IF pawn_double_moves # {}
            THEN Append(ml1, new_move(pinned_pos, LowestBit(pawn_double_moves), 0))
            ELSE ml1

\* add_pinned_pawn_captures::<P, C>: the move list and the Board it leaves
add_pinned_pawn_captures(P, is_left, ml, b, occupancy, pinned_pos, mask, king_pos) ==
    LET enemy_bb == b.combined_bitboards[enemy(P)]
        back_rank == opposite_back_rank(P)
        captures == CaptureShift(P, is_left, {pinned_pos}) \cap mask
        promotion_caps == (captures \cap ranks[back_rank]) \cap enemy_bb
        en_passant == b.en_passant
        en_passant_end == en_passant + forward_offset(P)
        non_promotion_caps == (captures \cap not_ranks[back_rank]) \cap enemy_bb
        \* the rest of the function, once the en-passant capture has been validated
        Captures(v) ==
            [ml |-> (IF v.result
                     THEN Append(ml, new_move(pinned_pos, en_passant_end, MOVE_TYPE_EN_PASSANT))
                     ELSE ml)
                    \o (IF non_promotion_caps # {}
                        THEN <<new_move(pinned_pos, LowestBit(non_promotion_caps), 0)>>
                        ELSE <<>>),
             board |-> v.board]
    IN IF promotion_caps # {}
       THEN [ml |-> add_promotion(ml, pinned_pos, LowestBit(promotion_caps)), board |-> b]
       ELSE IF b.en_passant # None /\ is_bit_set(captures, en_passant)
            THEN Captures(validate_en_passant(P, b, king_pos, pinned_pos, en_passant_end,
                                              occupancy))
            ELSE Captures([result |-> FALSE, board |-> b])

add_pinned_moves(P, ml, b, occupancy, legal_captures, blockers, king_pos, pinned_pos, attacker_pos) ==
    LET moves_mask == legal_captures \cup blockers
        piece == b.pieces[pinned_pos]
        Pinned(pin_move_mask) ==
            LET Right(l) ==
                    add_pinned_pawn_captures(P, FALSE, l.ml, l.board, occupancy, pinned_pos,
                                             legal_captures \cap pin_move_mask, king_pos)
                Straight(ml1) ==
                    IF is_rook(piece) \/ is_queen(piece)
                    THEN AddMoves(ml1, pinned_pos,
                                  (magic_rook_moves(pinned_pos, occupancy) \cap moves_mask)
                                     \cap pin_move_mask)
                    ELSE ml1
            IN IF is_pawn(piece)
               THEN IF rank(king_pos) # rank(pinned_pos)
                    THEN IF file(king_pos) = file(pinned_pos)
                         THEN [ml |-> add_pinned_pawn_pushes(P, ml, occupancy, pinned_pos,
                                                             pin_move_mask \cap blockers),
                               board |-> b]
                         ELSE Right(add_pinned_pawn_captures(
                                        P, TRUE, ml, b, occupancy, pinned_pos,
                                        legal_captures \cap pin_move_mask, king_pos))
                    ELSE [ml |-> ml, board |-> b]
               ELSE [ml |-> Straight(IF is_bishop(piece) \/ is_queen(piece)
                                     THEN AddMoves(ml, pinned_pos,
                                                   (magic_bishop_moves(pinned_pos, occupancy)
                                                      \cap moves_mask) \cap pin_move_mask)
                                     ELSE ml),
                     board |-> b]
    IN Pinned((slider_range[attacker_pos][king_pos] \ b.combined_bitboards[P])
              \cup {attacker_pos})

\* the while loop of gen_pin_attackers over the attackers, in pop_lsb order
RECURSIVE PinLoop(_, _, _, _, _, _, _, _, _)
PinLoop(P, attackers, ml, b, pinned_pieces, occupancy, king_pos, legal_captures, blockers) ==
    IF attackers = <<>> THEN [ml |-> ml, board |-> b, pinned |-> pinned_pieces]
    ELSE LET attacker_pos == Head(attackers)
             occupied == slider_range[attacker_pos][king_pos] \cap b.combined_bitboards[P]
             pinned_pos == LowestBit(occupied)
             \* m: the list and the Board for the next attacker; pin: a pin was found
             Rest(m, pin) ==
                 PinLoop(P, Tail(attackers), m.ml, m.board,
                         IF pin THEN set_bit(pinned_pieces, pinned_pos) ELSE pinned_pieces,
                         occupancy, king_pos, legal_captures, blockers)
         IN IF Cardinality(occupied) = 1
            THEN Rest(add_pinned_moves(P, ml, b, occupancy, legal_captures, blockers,
                                       king_pos, pinned_pos, attacker_pos), TRUE)
            ELSE Rest([ml |-> ml, board |-> b], FALSE)

gen_pin_attackers(P, ml, b, occupancy, king_pos, checkers, legal_captures, blockers, is_bishop_pass) ==
    LET enemy_color == enemy(P)
        piece_mask == b.piece_bitboards[queen(enemy_color)]
                      \cup b.piece_bitboards[IF is_bishop_pass THEN bishop(enemy_color)
                                             ELSE rook(enemy_color)]
        attackers ==
            ((IF is_bishop_pass
              THEN magic_bishop_moves(king_pos, b.combined_bitboards[enemy(P)])
              ELSE magic_rook_moves(king_pos, b.combined_bitboards[enemy(P)]))
             \cap piece_mask) \ checkers
    IN PinLoop(P, BitsOf(attackers), ml, b, {}, occupancy, king_pos, legal_captures, blockers)

\* gen_pinned_pieces that finds no pin
gen_pinned_pieces_no_pins(P, ml, b, occupancy, king_pos, checkers, legal_captures, blockers) ==
    [ml |-> ml, board |-> b, pinned |-> {}]

gen_pinned_pieces(P, ml, b, occupancy, king_pos, checkers, legal_captures, blockers) ==
    LET Straight(d) ==
            LET Both(s) == [ml |-> s.ml, board |-> s.board, pinned |-> d.pinned \cup s.pinned]
            IN Both(gen_pin_attackers(P, d.ml, d.board, occupancy, king_pos, checkers,
                                      legal_captures, blockers, FALSE))
    IN Straight(gen_pin_attackers(P, ml, b, occupancy, king_pos, checkers, legal_captures,
                                  blockers, TRUE))

\* the four calls that end the arms for one checker and for no checker
\* (movegen.rs:1357-1360, 1371-1374): p is the result of gen_pinned_pieces, w the
\* list and the Board after add_pawn_moves
AddUnpinnedPieces(P, p, w, occupancy, move_mask) ==
    [ml |-> add_queen_moves(P,
                add_rook_moves(P,
                    add_bishop_moves(P,
                        add_knight_moves(P, w.ml, w.board, p.pinned, move_mask),
                        w.board, occupancy, p.pinned, move_mask),
                    w.board, occupancy, p.pinned, move_mask),
                w.board, occupancy, p.pinned, move_mask),
     board |-> w.board,
     panic |-> FALSE]

\* AddPawnsAndPieces with add_castling_moves called in the arm for one checker as well
AddPawnsAndPiecesCastlesInCheck(P, p, occupancy, king_pos, legal_captures, blockers, move_mask, castling) ==
    AddUnpinnedPieces(P, p,
                      add_pawn_moves(P,
                                     add_castling_moves(P, p.ml, p.board, occupancy),
                                     p.board, occupancy, p.pinned, legal_captures, blockers,
                                     king_pos),
                      occupancy, move_mask)

\* add_castling_moves, in the arm for no checker only, and add_pawn_moves
\* (movegen.rs:1348-1356, 1367-1370), then the pieces that are not pinned
AddPawnsAndPieces(P, p, occupancy, king_pos, legal_captures, blockers, move_mask, castling) ==
    AddUnpinnedPieces(P, p,
                      add_pawn_moves(P,
                                     IF castling
                                     THEN add_castling_moves(P, p.ml, p.board, occupancy)
                                     ELSE p.ml,
                                     p.board, occupancy, p.pinned, legal_captures, blockers,
                                     king_pos),
                      occupancy, move_mask)

\* the arms of the match on the number of checkers (movegen.rs:1319-1379). The arms
\* for one checker and for none make the same calls: with one checker it may be
\* captured and its line to the king blocked; with none attacking_king is 0 and
\* the masks are FULL_BB
GenForAttackers(P, ml0, b, occupancy, king_pos, attacking_king, blockers) ==
    CASE count_1s(attacking_king) = 2 -> [ml |-> ml0, board |-> b, panic |-> FALSE]
      [] count_1s(attacking_king) \in {0, 1} ->
             AddPawnsAndPieces(P,
                               gen_pinned_pieces(P, ml0, b, occupancy, king_pos,
                                                 attacking_king,
                                                 IF count_1s(attacking_king) = 1
                                                 THEN attacking_king ELSE FULL_BB,
                                                 blockers),
                               occupancy, king_pos,
                               IF count_1s(attacking_king) = 1 THEN attacking_king
                               ELSE FULL_BB,
                               blockers,
                               IF count_1s(attacking_king) = 1
                               THEN attacking_king \cup blockers ELSE FULL_BB,
                               count_1s(attacking_king) = 0)
      [] OTHER -> [ml |-> ml0, board |-> b, panic |-> TRUE]

\* BlockersOf with FULL_BB in the arm for one checker as well
BlockersOfAnySquare(b, king_pos, attacking_king) ==
    FULL_BB

\* blockers of the arm for one checker (movegen.rs:1326-1335), FULL_BB with none
BlockersOf(b, king_pos, attacking_king) ==
    IF count_1s(attacking_king) # 1 THEN FULL_BB
    ELSE IF is_knight(b.pieces[LowestBit(attacking_king)]) THEN {}
    ELSE slider_range[king_pos][LowestBit(attacking_king)]

\* gen_moves_for_player after occupancy and king_pos are read (movegen.rs:1313-1317)
GenForKing(P, b, occupancy, king_pos, attacking_king) ==
    GenForAttackers(P, add_king_moves(P, <<>>, b, occupancy), b, occupancy, king_pos,
                    attacking_king, BlockersOf(b, king_pos, attacking_king))

\* gen_moves_for_player::<P>: the move list, the Board it leaves, and whether the
\* attacker count hit the panic arm
GenForOccupancy(P, b, occupancy, king_pos) ==
    GenForKing(P, b, occupancy, king_pos, find_enemy_attackers(P, king_pos, b, occupancy))

gen_moves_for_player(P, b) ==
    GenForOccupancy(P, b, get_occupancy(b), LowestBit(b.piece_bitboards[king(P)]))

gen_moves(b) ==
    gen_moves_for_player(IF b.current_color = White THEN White ELSE Black, b)

is_in_check(b) ==
    LET occupancy == get_occupancy(b)
    IN IF b.current_color = White
       THEN find_enemy_attackers(White, LowestBit(b.piece_bitboards[king(White)]), b, occupancy)
            # {}
       ELSE find_enemy_attackers(Black, LowestBit(b.piece_bitboards[king(Black)]), b, occupancy)
            # {}

\* ------------------------------------------------------------- evaluator

PIECE_VALUE ==
    <<100, 315, 325, 500, 900, 0, -100, -315, -325, -500, -900, 0>>

PAWN_SQ_VALUE ==
    <<0, 0, 0, 0, 0, 0, 0, 0,
      50, 50, 50, 50, 50, 50, 50, 50,
      10, 10, 20, 30, 30, 20, 10, 10,
      5, 5, 10, 25, 25, 10, 5, 5,
      0, 0, 0, 20, 20, 0, 0, 0,
      5, -5, -10, 0, 0, -10, -5, 5,
      5, 10, 10, -20, -20, 10, 10, 5,
      0, 0, 0, 0, 0, 0, 0, 0>>

KNIGHT_SQ_VALUE ==
    <<-50, -40, -30, -30, -30, -30, -40, -50,
      -40, -20, 0, 0, 0, 0, -20, -40,
      -30, 0, 10, 15, 15, 10, 0, -30,
      -30, 5, 15, 20, 20, 15, 5, -30,
      -30, 0, 15, 20, 20, 15, 0, -30,
      -30, 5, 10, 15, 15, 10, 5, -30,
      -40, -20, 0, 5, 5, 0, -20, -40,
      -50, -40, -30, -30, -30, -30, -40, -50>>

BISHOP_SQ_VALUE ==
    <<-20, -10, -10, -10, -10, -10, -10, -20,
      -10, 0, 0, 0, 0, 0, 0, -10,
      -10, 0, 5, 10, 10, 5, 0, -10,
      -10, 5, 5, 10, 10, 5, 5, -10,
      -10, 0, 10, 10, 10, 10, 0, -10,
      -10, 10, 10, 10, 10, 10, 10, -10,
      -10, 5, 0, 0, 0, 0, 5, -10,
      -20, -10, -10, -10, -10, -10, -10, -20>>

ROOK_SQ_VALUE ==
    <<0, 0, 0, 0, 0, 0, 0, 0,
      5, 10, 10, 10, 10, 10, 10, 5,
      -5, 0, 0, 0, 0, 0, 0, -5,
      -5, 0, 0, 0, 0, 0, 0, -5,
      -5, 0, 0, 0, 0, 0, 0, -5,
      -5, 0, 0, 0, 0, 0, 0, -5,
      -5, 0, 0, 0, 0, 0, 0, -5,
      0, 0, 0, 5, 5, 0, 0, 0>>

QUEEN_SQ_VALUE ==
    <<-20, -10, -10, -5, -5, -10, -10, -20,
      -10, 0, 0, 0, 0, 0, 0, -10,
      -10, 0, 5, 5, 5, 5, 0, -10,
      -5, 0, 5, 5, 5, 5, 0, -5,
      0, 0, 5, 5, 5, 5, 0, -5,
      -10, 5, 5, 5, 5, 5, 0, -10,
      -10, 0, 5, 0, 0, 0, 0, -10,
      -20, -10, -10, -5, -5, -10, -10, -20>>

KING_SQ_VALUE ==
    <<-30, -40, -40, -50, -50, -40, -40, -30,
      -30, -40, -40, -50, -50, -40, -40, -30,
      -30, -40, -40, -50, -50, -40, -40, -30,
      -30, -40, -40, -50, -50, -40, -40, -30,
      -20, -30, -30, -40, -40, -30, -30, -20,
      -10, -20, -20, -20, -20, -20, -20, -10,
      20, 20, 0, 0, 0, 0, 20, 20,
      20, 30, 10, 0, 0, 10, 30, 20>>

SQ_VALUE ==
    <<PAWN_SQ_VALUE, KNIGHT_SQ_VALUE, BISHOP_SQ_VALUE, ROOK_SQ_VALUE, QUEEN_SQ_VALUE,
      KING_SQ_VALUE>>

\* Evaluator::sq_value: the table is read at sq itself for both colours
sq_value(piece, sq) ==
    LET piece_idx == piece % 6
    IN SQ_VALUE[piece_idx + 1][sq + 1] * (IF color_of(piece) = White THEN 1 ELSE -1)

piece_value(piece) == PIECE_VALUE[piece + 1]

\* en_passant_diff with the enemy pawn taken off the target square
en_passant_diffPawnOnTarget(start, en_passant_sq, end, friendly_pawn) ==
    LET enemy_pawn == pawn(enemy(color_of(friendly_pawn)))
    IN (((0 - piece_value(enemy_pawn)) - sq_value(enemy_pawn, en_passant_sq))
          - sq_value(friendly_pawn, start)) + sq_value(friendly_pawn, en_passant_sq)

en_passant_diff(start, en_passant_sq, end, friendly_pawn) ==
    LET enemy_pawn == pawn(enemy(color_of(friendly_pawn)))
    IN (((0 - piece_value(enemy_pawn)) - sq_value(enemy_pawn, end))
          - sq_value(friendly_pawn, start)) + sq_value(friendly_pawn, en_passant_sq)

castle_diff(king_start, king_end, rook_start, rook_end, color) ==
    (((0 - sq_value(king(color), king_start)) + sq_value(king(color), king_end))
        - sq_value(rook(color), rook_start)) + sq_value(rook(color), rook_end)

promotion_diff(pawn_start, promotion_end, promotion_piece, captured_piece, color) ==
    LET friendly_pawn == pawn(color)
        diff == (((0 - piece_value(friendly_pawn)) - sq_value(friendly_pawn, pawn_start))
                   + piece_value(promotion_piece)) + sq_value(promotion_piece, promotion_end)
    IN IF captured_piece # None
       THEN (diff - piece_value(captured_piece)) - sq_value(captured_piece, promotion_end)
       ELSE diff

standard_diff(piece_start, piece_end, piece, captured_piece) ==
    LET diff == (0 - sq_value(piece, piece_start)) + sq_value(piece, piece_end)
    IN IF captured_piece # None
       THEN (diff - piece_value(captured_piece)) - sq_value(captured_piece, piece_end)
       ELSE diff

\* Evaluator::init_score: the loop over the squares 0..64, from square sq with the sum
\* so far
RECURSIVE InitScoreLoop(_, _, _)
InitScoreLoop(pieces, sq, sum) ==
    IF sq = 64 THEN sum
    ELSE IF pieces[sq] = None THEN InitScoreLoop(pieces, sq + 1, sum)
    ELSE InitScoreLoop(pieces, sq + 1,
                       sum + (piece_value(pieces[sq]) + sq_value(pieces[sq], sq)))

init_score(b) == InitScoreLoop(b.pieces, 0, 0)

\* Evaluator::score
score(evaluator, color) == IF color = White THEN evaluator ELSE 0 - evaluator

\* ---------------------------------------------------------------- search

\* i32::MIN + 1 and i32::MAX
I32_MIN_PLUS_1 == -2147483647
I32_MAX == 2147483647

Max(a, b) == IF a >= b THEN a ELSE b

\* info.evalutor_diff as make_move leaves it: the delta of the move's type, taken on
\* the Board before the move
evalutor_diff(b, my_move) ==
    LET start == get_move_start(my_move)
        end == get_move_end(my_move)
        piece == get_move_piece(my_move)
        friendly_color == b.current_color
        offset == (start \div 8) * 8
        move_type == get_move_type(my_move)
    IN CASE move_type = MOVE_TYPE_EN_PASSANT ->
              en_passant_diff(start, b.en_passant, end, pawn(friendly_color))
         [] move_type = MOVE_TYPE_CASTLE ->
              IF piece = MOVE_CASTLE_SIDE_QS
              THEN castle_diff(start, end, offset, offset + 3, friendly_color)
              ELSE castle_diff(start, end, offset + 7, offset + 5, friendly_color)
         [] move_type = MOVE_TYPE_PROMOTION ->
              promotion_diff(start, end,
                             CASE piece = MOVE_PROMOTION_PIECE_KNIGHT -> knight(friendly_color)
                               [] piece = MOVE_PROMOTION_PIECE_BISHOP -> bishop(friendly_color)
                               [] piece = MOVE_PROMOTION_PIECE_ROOK -> rook(friendly_color)
                               [] OTHER -> queen(friendly_color),
                             b.pieces[end], friendly_color)
         [] OTHER -> standard_diff(start, end, b.pieces[start], b.pieces[end])

\* Board::is_draw: the fifty-move rule
is_draw(b) == b.fifty_move >= 100

\* MoveList::order_moves: captures before quiet moves and promotions before the rest,
\* moves of one class in generation order
OrderClass(b, my_move) ==
    (IF b.pieces[get_move_end(my_move)] # None THEN 0 ELSE 2)
    + (IF get_move_type(my_move) = MOVE_TYPE_PROMOTION THEN 0 ELSE 1)

RECURSIVE OfClass(_, _, _)
OfClass(b, ml, class) ==
    IF ml = <<>> THEN <<>>
    ELSE (IF OrderClass(b, Head(ml)) = class THEN <<Head(ml)>> ELSE <<>>)
         \o OfClass(b, Tail(ml), class)

order_moves(b, ml) ==
    OfClass(b, ml, 0) \o OfClass(b, ml, 1) \o OfClass(b, ml, 2) \o OfClass(b, ml, 3)

\* negamax: the value, with the Board and the evaluator score it leaves behind.
\* NegamaxLoop is the for loop over the ordered moves from index i on.
RECURSIVE negamax(_, _, _, _, _)
RECURSIVE NegamaxLoop(_, _, _, _, _, _, _, _)

\* NegamaxNext leaving the loop as soon as a move has reached alpha
NegamaxNextCutsOnBest(depth, ml, i, alpha, beta, best, b, evaluator) ==
    IF alpha >= beta \/ best >= alpha
    THEN [best |-> best, board |-> b, evaluator |-> evaluator]
    ELSE NegamaxLoop(depth, ml, i + 1, alpha, beta, best, b, evaluator)

\* the end of the loop body (search.rs:76-79): the cut-off test, with best and alpha
\* updated, the move undone and the evaluation reset
NegamaxNext(depth, ml, i, alpha, beta, best, b, evaluator) ==
    IF alpha >= beta
    THEN [best |-> best, board |-> b, evaluator |-> evaluator]
    ELSE NegamaxLoop(depth, ml, i + 1, alpha, beta, best, b, evaluator)

\* NegamaxSearched with the cut-off taken before undo_move and the evaluation reset
NegamaxSearchedBreaksBeforeUndo(depth, ml, i, alpha, beta, best, made, diff, sub) ==
    IF Max(alpha, Max(best, 0 - sub.best)) >= beta
    THEN [best |-> Max(best, 0 - sub.best), board |-> sub.board, evaluator |-> sub.evaluator]
    ELSE NegamaxNext(depth, ml, i, Max(alpha, Max(best, 0 - sub.best)), beta,
                     Max(best, 0 - sub.best), undo_move(sub.board, ml[i], made.info),
                     sub.evaluator - diff)

\* the loop body after the recursive call has returned sub (search.rs:56-74): best
\* and alpha are updated, the move is undone and the evaluation reset
NegamaxSearched(depth, ml, i, alpha, beta, best, made, diff, sub) ==
    NegamaxNext(depth, ml, i, Max(alpha, Max(best, 0 - sub.best)), beta,
                Max(best, 0 - sub.best), undo_move(sub.board, ml[i], made.info),
                sub.evaluator - diff)

\* the loop body after make_move (search.rs:50-66): made is the Board and the
\* UndoInfo, diff is info.evalutor_diff
NegamaxMade(depth, ml, i, alpha, beta, best, evaluator, made, diff) ==
    NegamaxSearched(depth, ml, i, alpha, beta, best, made, diff,
                    negamax(depth - 1, 0 - beta, 0 - alpha, made.board, evaluator + diff))

NegamaxLoop(depth, ml, i, alpha, beta, best, b, evaluator) ==
    IF i > Len(ml) THEN [best |-> best, board |-> b, evaluator |-> evaluator]
    ELSE NegamaxMade(depth, ml, i, alpha, beta, best, evaluator, make_move(b, ml[i]),
                     evalutor_diff(b, ml[i]))

\* NegamaxOrdered with the draw test taken before the test for no move
NegamaxOrderedDrawFirst(depth, alpha, beta, board1, evaluator, ml) ==
    IF is_draw(board1)
    THEN [best |-> 0, board |-> board1, evaluator |-> evaluator]
    ELSE IF Len(ml) = 0
    THEN [best |-> IF ~is_in_check(board1) THEN 0 ELSE I32_MIN_PLUS_1,
          board |-> board1, evaluator |-> evaluator]
    ELSE NegamaxLoop(depth, ml, 1, alpha, beta, I32_MIN_PLUS_1, board1, evaluator)

\* negamax after gen_moves and order_moves (search.rs:27-81)
NegamaxOrdered(depth, alpha, beta, board1, evaluator, ml) ==
    IF Len(ml) = 0
    THEN [best |-> IF ~is_in_check(board1) THEN 0 ELSE I32_MIN_PLUS_1,
          board |-> board1, evaluator |-> evaluator]
    ELSE IF is_draw(board1)
    THEN [best |-> 0, board |-> board1, evaluator |-> evaluator]
    ELSE NegamaxLoop(depth, ml, 1, alpha, beta, I32_MIN_PLUS_1, board1, evaluator)

\* negamax after gen_moves (search.rs:24-25)
NegamaxGenerated(depth, alpha, beta, evaluator, g) ==
    NegamaxOrdered(depth, alpha, beta, g.board, evaluator, order_moves(g.board, g.ml))

negamax(depth, alpha, beta, b, evaluator) ==
    IF depth = 0
    THEN [best |-> score(evaluator, b.current_color), board |-> b, evaluator |-> evaluator]
    ELSE NegamaxGenerated(depth, alpha, beta, evaluator, gen_moves(b))

\* the end of the loop body of find_best_move (search.rs:130-134): the best move is
\* stored
RootScored(s, my_move, value, b1, evaluator1) ==
    [state |-> [s EXCEPT !.i = @ + 1,
                         !.evaluator = evaluator1,
                         !.best_score = IF value >= @ THEN value ELSE @,
                         !.best_move = IF value >= s.best_score THEN my_move ELSE @],
     board |-> b1]

\* the loop body after negamax has returned sub (search.rs:114-128)
RootSearched(s, my_move, made, diff, sub) ==
    RootScored(s, my_move, 0 - sub.best, undo_move(sub.board, my_move, made.info),
               sub.evaluator - diff)

\* the loop body after make_move (search.rs:109-122)
RootMade(s, my_move, made, diff) ==
    RootSearched(s, my_move, made, diff,
                 negamax(s.max_depth - 1, I32_MIN_PLUS_1, I32_MAX - 1, made.board,
                         s.evaluator + diff))

\* the body of the for loop of find_best_move (search.rs:105-135) for the move at
\* index i: the search state s after it
RootStep(s, b) ==
    RootMade(s, s.list[s.i], make_move(b, s.list[s.i]), evalutor_diff(b, s.list[s.i]))

\* find_best_move after gen_moves (search.rs:100-103)
RootGenerated(max_depth, b, g) ==
    [state |-> [max_depth |-> max_depth, list |-> g.ml, i |-> 1,
                evaluator |-> init_score(b),
                best_move |-> None, best_score |-> I32_MIN_PLUS_1],
     board |-> g.board]

\* the search state find_best_move starts its loop from (search.rs:95-103)
RootStart(max_depth, b) == RootGenerated(max_depth, b, gen_moves(b))
\* ------------------------------------------------------- start positions

\* r3k2r/8/8/8/8/8/8/R3K2R w KQkq - 0 1: both sides may castle either way; the rooks can capture each other on the corners
FenCastle ==
    <<"r", "3", "k", "2", "r", "/", "8", "/", "8", "/", "8", "/", "8", "/", "8", "/", "8", "/", "R", "3", "K", "2", "R", " ", "w", " ", "K", "Q", "k", "q", " ", "-", " ", "0", " ", "1">>

\* 8/8/8/2k5/3Pp3/8/8/4K3 b - d3 0 1: the en-passant scenario of perft.rs:76
FenEnPassant ==
    <<"8", "/", "8", "/", "8", "/", "2", "k", "5", "/", "3", "P", "p", "3", "/", "8", "/", "8", "/", "4", "K", "3", " ", "b", " ", "-", " ", "d", "3", " ", "0", " ", "1">>

\* rn2k3/1P6/8/8/8/8/6p1/4K2R w Kq - 0 1: pawns that promote with and without capture, also on a rook's home corner
FenPromotion ==
    <<"r", "n", "2", "k", "3", "/", "1", "P", "6", "/", "8", "/", "8", "/", "8", "/", "8", "/", "6", "p", "1", "/", "4", "K", "2", "R", " ", "w", " ", "K", "q", " ", "-", " ", "0", " ", "1">>

\* 8/2p5/3p4/KP5r/1R3p1k/8/4P1P1/8 w - - 0 1: pinned pawns and en-passant captures that uncover the king's rank
FenPinned ==
    <<"8", "/", "2", "p", "5", "/", "3", "p", "4", "/", "K", "P", "5", "r", "/", "1", "R", "3", "p", "1", "k", "/", "8", "/", "4", "P", "1", "P", "1", "/", "8", " ", "w", " ", "-", " ", "-", " ", "0", " ", "1">>

\* 4k3/8/8/8/4r3/5n2/8/4K3 w - - 0 1: the king in double check
FenDoubleCheck ==
    <<"4", "k", "3", "/", "8", "/", "8", "/", "8", "/", "4", "r", "3", "/", "5", "n", "2", "/", "8", "/", "4", "K", "3", " ", "w", " ", "-", " ", "-", " ", "0", " ", "1">>

\* 4k3/8/8/b7/4r3/2B5/4Q3/4K2N w - - 0 1: a bishop and a queen pinned to the king
FenPinnedSliders ==
    <<"4", "k", "3", "/", "8", "/", "8", "/", "b", "7", "/", "4", "r", "3", "/", "2", "B", "5", "/", "4", "Q", "3", "/", "4", "K", "2", "N", " ", "w", " ", "-", " ", "-", " ", "0", " ", "1">>

\* k7/8/8/8/8/8/7P/K7 w - - 99 60: the halfmove clock about to reach 100
FenFiftyMove ==
    <<"k", "7", "/", "8", "/", "8", "/", "8", "/", "8", "/", "8", "/", "7", "P", "/", "K", "7", " ", "w", " ", "-", " ", "-", " ", "9", "9", " ", "6", "0">>

StartFens ==
    {FenCastle, FenEnPassant, FenPromotion, FenPinned, FenDoubleCheck, FenPinnedSliders, FenFiftyMove}
\* ------------------------------------------------------ search positions

\* 8/8/8/8/8/8/5K2/4Q2k b - - 0 1: the position the stalemate scenario names
FenStalemateScenario ==
    <<"8", "/", "8", "/", "8", "/", "8", "/", "8", "/", "8", "/", "5", "K", "2", "/", "4", "Q", "2", "k", " ", "b", " ", "-", " ", "-", " ", "0", " ", "1">>

\* 7k/8/6K1/8/8/8/8/Rn6 w - - 0 1: Ra1-a8 is checkmate; Ra1xb1 wins a knight
FenMateInOne ==
    <<"7", "k", "/", "8", "/", "6", "K", "1", "/", "8", "/", "8", "/", "8", "/", "8", "/", "R", "n", "6", " ", "w", " ", "-", " ", "-", " ", "0", " ", "1">>

\* 6k1/5ppp/8/8/8/8/8/R3K3 w Q - 0 1: Ra1-a8 is checkmate and no capture is on offer
FenBackRankMate ==
    <<"6", "k", "1", "/", "5", "p", "p", "p", "/", "8", "/", "8", "/", "8", "/", "8", "/", "8", "/", "R", "3", "K", "3", " ", "w", " ", "Q", " ", "-", " ", "0", " ", "1">>

\* 7k/5Q2/8/8/8/8/8/K7 b - - 0 1: Black has no move and is not in check
FenStalemate ==
    <<"7", "k", "/", "5", "Q", "2", "/", "8", "/", "8", "/", "8", "/", "8", "/", "8", "/", "K", "7", " ", "b", " ", "-", " ", "-", " ", "0", " ", "1">>

SearchFens ==
    {FenStalemateScenario, FenMateInOne, FenBackRankMate, FenStalemate, FenEnPassant, FenDoubleCheck,
     FenFiftyMove, FenPromotion}
\* ------------------------------------------- positions of the deep search

\* k7/8/8/8/8/8/7P/K7 w - - 100 60: the halfmove clock has reached 100
FenFiftyReached ==
    <<"k", "7", "/", "8", "/", "8", "/", "8", "/", "8", "/", "8", "/", "7", "P", "/", "K", "7", " ", "w", " ", "-", " ", "-", " ", "1", "0", "0", " ", "6", "0">>

\* 7k/8/8/3p4/4P3/8/8/K7 w - - 0 1: two pawns that can capture each other
FenPawnDuel ==
    <<"7", "k", "/", "8", "/", "8", "/", "3", "p", "4", "/", "4", "P", "3", "/", "8", "/", "8", "/", "K", "7", " ", "w", " ", "-", " ", "-", " ", "0", " ", "1">>

\* 7k/8/8/8/3n4/8/4N3/K7 w - - 0 1: two knights that can capture each other
FenKnightDuel ==
    <<"7", "k", "/", "8", "/", "8", "/", "8", "/", "3", "n", "4", "/", "8", "/", "4", "N", "3", "/", "K", "7", " ", "w", " ", "-", " ", "-", " ", "0", " ", "1">>

\* k7/2K5/1P6/8/8/8/8/8 w - - 0 1: Kc7-c8 stalemates, b6-b7+ leads to a promotion
FenCornerPawn ==
    <<"k", "7", "/", "2", "K", "5", "/", "1", "P", "6", "/", "8", "/", "8", "/", "8", "/", "8", "/", "8", " ", "w", " ", "-", " ", "-", " ", "0", " ", "1">>

\* 7k/7P/6PK/8/8/8/8/8 w - - 0 1: g6-g7 is checkmate
FenPawnMate ==
    <<"7", "k", "/", "7", "P", "/", "6", "P", "K", "/", "8", "/", "8", "/", "8", "/", "8", "/", "8", " ", "w", " ", "-", " ", "-", " ", "0", " ", "1">>

\* 7k/8/6K1/8/8/8/8/R7 w - - 99 1: Ra1-a8 is checkmate and takes the halfmove clock to 100
FenMateAtHundred ==
    <<"7", "k", "/", "8", "/", "6", "K", "1", "/", "8", "/", "8", "/", "8", "/", "8", "/", "R", "7", " ", "w", " ", "-", " ", "-", " ", "9", "9", " ", "1">>

AlphaBetaFens ==
    {FenFiftyMove, FenFiftyReached, FenPawnDuel, FenKnightDuel, FenCornerPawn, FenEnPassant,
     FenStalemate, FenPawnMate, FenMateAtHundred}
\* ------------------------------------------------ the perft / play machine

NoSearch ==
    [max_depth |-> 0, list |-> <<>>, i |-> 1, evaluator |-> 0, best_move |-> None,
     best_score |-> I32_MIN_PLUS_1]

\* the machines that do not run the command loop, iterative_deepening or the bit scan
\* leave these variables as they are
NoUci == [lines |-> 0, line |-> <<>>, status |-> "idle", nodes |-> 0]

NoDeepen ==
    [max_depth |-> 0, max_time_millis |-> 0, depth |-> 0, best_move |-> 0, now |-> 0,
     start |-> 0, millis |-> 0, calls |-> <<>>]

NoWord == [bb |-> {}, prev |-> {}, op |-> "none", index |-> {}, result |-> None]

NoMagic ==
    [kind |-> "none", sq |-> 0, idx |-> 0, moves |-> <<>>, op |-> "none", key |-> 0,
     prev |-> {}, blockers |-> {}, result |-> {}]

\* Board::new on one of the start positions
Init ==
    /\ fen_in \in StartFens
    /\ board = BoardNew(fen_in).board
    /\ move_list = <<>>
    /\ generated = FALSE
    /\ hist = <<>>
    /\ last = [op |-> "new", move |-> None, prev |-> board]
    /\ fen_out = <<>>
    /\ pc = "play"
    /\ search = NoSearch
    /\ uci = NoUci
    /\ deepen = NoDeepen
    /\ word = NoWord
    /\ magic = NoMagic

\* move_generator.gen_moves(board, &mut move_list) (perft.rs:12)
GenMoves ==
    /\ pc = "play"
    /\ ~generated
    /\ \E g \in {gen_moves(board)} :
          /\ ~g.panic
          /\ board' = g.board
          /\ move_list' = g.ml
          /\ last' = [op |-> "gen", move |-> None, prev |-> board]
    /\ generated' = TRUE
    /\ UNCHANGED <<hist, fen_in, fen_out, pc, search, uci, deepen, word, magic>>

\* board.make_move(my_move, &mut info) on the i-th generated move (perft.rs:17)
MakeMove(i) ==
    /\ pc = "play"
    /\ generated
    /\ Len(hist) < MaxPly
    /\ \E made \in {make_move(board, move_list[i])} :
          /\ board' = made.board
          /\ hist' = Append(hist, [move |-> move_list[i], info |-> made.info,
                                   list |-> move_list, prev |-> board])
          /\ last' = [op |-> "make", move |-> move_list[i], prev |-> board]
    /\ move_list' = <<>>
    /\ generated' = FALSE
    /\ UNCHANGED <<fen_in, fen_out, pc, search, uci, deepen, word, magic>>

\* board.undo_move(my_move, &info) of the innermost made move (perft.rs:19)
UndoMove ==
    /\ pc = "play"
    /\ hist # <<>>
    /\ LET frame == hist[Len(hist)]
       IN /\ board' = undo_move(board, frame.move, frame.info)
          /\ move_list' = frame.list
          /\ last' = [op |-> "undo", move |-> frame.move, prev |-> frame.prev]
    /\ hist' = SubSeq(hist, 1, Len(hist) - 1)
    /\ generated' = TRUE
    /\ UNCHANGED <<fen_in, fen_out, pc, search, uci, deepen, word, magic>>

Next ==
    \/ GenMoves
    \/ \E i \in 1 .. Len(move_list) : MakeMove(i)
    \/ UndoMove

Spec == Init /\ [][Next]_vars

\* ------------------------------------------------------ the search machine

InitSearch ==
    /\ fen_in \in SearchFens
    /\ board = BoardNew(fen_in).board
    /\ move_list = <<>>
    /\ generated = FALSE
    /\ hist = <<>>
    /\ last = [op |-> "new", move |-> None, prev |-> board]
    /\ fen_out = <<>>
    /\ pc = "search"
    /\ search = NoSearch
    /\ uci = NoUci
    /\ deepen = NoDeepen
    /\ word = NoWord
    /\ magic = NoMagic

\* find_best_move(max_depth, ...) up to its loop (search.rs:95-103)
StartSearch(max_depth) ==
    /\ pc = "search"
    /\ \E s \in {RootStart(max_depth, board)} :
          /\ search' = s.state
          /\ board' = s.board
    /\ pc' = "loop"
    /\ UNCHANGED <<move_list, generated, hist, last, fen_in, fen_out, uci, deepen, word, magic>>

\* one turn of the loop of find_best_move (search.rs:105-135)
SearchStep ==
    /\ pc = "loop"
    /\ search.i <= Len(search.list)
    /\ \E r \in {RootStep(search, board)} :
          /\ search' = r.state
          /\ board' = r.board
    /\ UNCHANGED <<move_list, generated, hist, last, fen_in, fen_out, pc, uci, deepen, word, magic>>

\* the return of find_best_move (search.rs:137-141): None when best_move is None,
\* Some((best_move, best_score)) otherwise
SearchReturn ==
    /\ pc = "loop"
    /\ search.i > Len(search.list)
    /\ pc' = "found"
    /\ UNCHANGED <<board, move_list, generated, hist, last, fen_in, fen_out, search, uci, deepen, word, magic>>

NextSearch ==
    \/ \E max_depth \in 1 .. MaxSearchDepth : StartSearch(max_depth)
    \/ SearchStep
    \/ SearchReturn

SpecSearch == InitSearch /\ [][NextSearch]_vars

\* ------------------------------------------------- the deep search machine

\* find_best_move up to MaxAlphaBetaDepth plies on positions of few men
InitAlphaBeta ==
    /\ fen_in \in AlphaBetaFens
    /\ board = BoardNew(fen_in).board
    /\ move_list = <<>>
    /\ generated = FALSE
    /\ hist = <<>>
    /\ last = [op |-> "new", move |-> None, prev |-> board]
    /\ fen_out = <<>>
    /\ pc = "search"
    /\ search = NoSearch
    /\ uci = NoUci
    /\ deepen = NoDeepen
    /\ word = NoWord
    /\ magic = NoMagic

NextAlphaBeta ==
    \/ \E max_depth \in 1 .. MaxAlphaBetaDepth : StartSearch(max_depth)
    \/ SearchStep
    \/ SearchReturn

SpecAlphaBeta == InitAlphaBeta /\ [][NextAlphaBeta]_vars

\* --------------------------------------------------------- the FEN machine

FenPlacements ==
    {<<"r", "3", "k", "2", "r", "/", "8", "/", "8", "/", "8", "/", "8", "/", "8", "/", "8", "/",
       "R", "3", "K", "2", "R">>,
     <<"r", "n", "b", "q", "k", "b", "n", "r", "/", "p", "p", "p", "p", "1", "p", "p", "p", "/",
       "8", "/", "4", "p", "3", "/", "3", "P", "4", "/", "8", "/",
       "P", "P", "P", "1", "P", "P", "P", "P", "/", "R", "N", "B", "Q", "K", "B", "N", "R">>,
     <<"8", "/", "8", "/", "8", "/", "2", "k", "5", "/", "3", "P", "p", "3", "/", "8", "/", "8", "/",
       "4", "K", "3">>}

FenSides == {<<"w">>, <<"b">>}

\* the sixteen sets of castling rights, each written in the order K, Q, k, q
FenCastlingsKQkq ==
    {<<"-">>, <<"K">>, <<"Q">>, <<"k">>, <<"q">>, <<"K", "Q">>, <<"K", "k">>, <<"K", "q">>,
     <<"Q", "k">>, <<"Q", "q">>, <<"k", "q">>, <<"K", "Q", "k">>, <<"K", "Q", "q">>,
     <<"K", "k", "q">>, <<"Q", "k", "q">>, <<"K", "Q", "k", "q">>}

\* the same sets written in the order Q, q, K, k
FenCastlingsQqKk ==
    {<<"-">>, <<"K">>, <<"Q">>, <<"k">>, <<"q">>, <<"Q", "K">>, <<"K", "k">>, <<"q", "K">>,
     <<"Q", "k">>, <<"Q", "q">>, <<"q", "k">>, <<"Q", "K", "k">>, <<"Q", "q", "K">>,
     <<"q", "K", "k">>, <<"Q", "q", "k">>, <<"Q", "q", "K", "k">>}

FenEnPassants == {<<"-">>, <<"d", "3">>, <<"e", "6">>}

FenHalfmoves == {<<"0">>, <<"7">>, <<"1", "2">>}

FenFullmoves == {<<"1">>, <<"4", "0">>}

FenText(placement, side, castling, ep, halfmove, fullmove) ==
    placement \o <<" ">> \o side \o <<" ">> \o castling \o <<" ">> \o ep \o <<" ">>
        \o halfmove \o <<" ">> \o fullmove

FenInputs ==
    {FenText(p, s, c, e, h, f) :
        p \in FenPlacements, s \in FenSides, c \in FenCastlingsKQkq \cup FenCastlingsQqKk,
        e \in FenEnPassants, h \in FenHalfmoves, f \in FenFullmoves}

InitFen ==
    /\ fen_in \in FenInputs
    /\ board = EmptyBoard
    /\ move_list = <<>>
    /\ generated = FALSE
    /\ hist = <<>>
    /\ last = [op |-> "none", move |-> None, prev |-> EmptyBoard]
    /\ fen_out = <<>>
    /\ pc = "fen"
    /\ search = NoSearch
    /\ uci = NoUci
    /\ deepen = NoDeepen
    /\ word = NoWord
    /\ magic = NoMagic

\* Board::new(fen)
LoadFen ==
    /\ pc = "fen"
    /\ LET r == BoardNew(fen_in)
       IN /\ board' = r.board
          /\ pc' = IF r.status = "ok" THEN "loaded" ELSE "failed"
    /\ UNCHANGED <<move_list, generated, hist, last, fen_in, fen_out, search, uci, deepen, word, magic>>

\* board.to_fen()
ToFen ==
    /\ pc = "loaded"
    /\ fen_out' = to_fen(board)
    /\ pc' = "printed"
    /\ UNCHANGED <<board, move_list, generated, hist, last, fen_in, search, uci, deepen, word, magic>>

NextFen ==
    \/ LoadFen
    \/ ToFen

SpecFen == InitFen /\ [][NextFen]_vars

\* ------------------------------------------- the iterative deepening machine

DeepenFens == {FenStalemate, FenFiftyMove, FenPawnMate, FenCornerPawn}

InitDeepen ==
    /\ fen_in \in DeepenFens
    /\ board = BoardNew(fen_in).board
    /\ move_list = <<>>
    /\ generated = FALSE
    /\ hist = <<>>
    /\ last = [op |-> "new", move |-> None, prev |-> board]
    /\ fen_out = <<>>
    /\ pc = "deepen"
    /\ search = NoSearch
    /\ uci = NoUci
    /\ deepen = NoDeepen
    /\ word = NoWord
    /\ magic = NoMagic

\* iterative_deepening(max_depth, ..., max_time_millis) up to its loop
\* (search.rs:152-161): the evaluator is set up, the moves are generated into
\* move_lists[max_depth - 1], the clock is read, and depth is 1
StartDeepening(max_depth, max_time_millis) ==
    /\ pc = "deepen"
    /\ \E g \in {gen_moves(board)} :
          /\ board' = g.board
          /\ search' = [NoSearch EXCEPT !.evaluator = init_score(board), !.list = g.ml]
    /\ deepen' = [deepen EXCEPT !.max_depth = max_depth,
                                !.max_time_millis = max_time_millis,
                                !.depth = 1,
                                !.best_move = 0,
                                !.start = deepen.now]
    /\ pc' = "call"
    /\ UNCHANGED <<move_list, generated, hist, last, fen_in, fen_out, uci, word, magic>>

\* the call of find_best_move in the loop (search.rs:163-169), up to the loop of
\* find_best_move: its first argument is max_depth; calls keeps the first argument
\* of every call
DeepenCall ==
    /\ pc = "call"
    /\ \E s \in {RootStart(deepen.max_depth, board)} :
          /\ search' = s.state
          /\ board' = s.board
    /\ deepen' = [deepen EXCEPT !.calls = Append(@, deepen.max_depth)]
    /\ pc' = "loop"
    /\ UNCHANGED <<move_list, generated, hist, last, fen_in, fen_out, uci, word, magic>>

\* DeepenBoundary leaving the loop only when millis > max_time_millis
DeepenBoundaryLateBreak(now) ==
    /\ pc = "found"
    /\ deepen.depth >= 1
    /\ now >= deepen.now
    /\ IF search.best_move = None
       THEN /\ pc' = "panic"
            /\ UNCHANGED deepen
       ELSE /\ \E millis \in {now - deepen.start} :
                 /\ deepen' = [deepen EXCEPT !.best_move = search.best_move,
                                             !.now = now,
                                             !.millis = millis,
                                             !.depth = IF millis > deepen.max_time_millis
                                                          \/ deepen.depth = deepen.max_depth
                                                       THEN @ ELSE @ + 1]
                 /\ pc' = IF millis > deepen.max_time_millis
                             \/ deepen.depth = deepen.max_depth
                          THEN "done" ELSE "call"
    /\ UNCHANGED <<board, move_list, generated, hist, last, fen_in, fen_out, search, uci, word, magic>>

\* the rest of the loop body after find_best_move has returned (search.rs:169-189):
\* unwrap panics on None; otherwise the move is kept, Instant::now() reads the
\* monotonic clock as now, and the loop ends when millis >= max_time_millis or
\* depth has reached max_depth
DeepenBoundary(now) ==
    /\ pc = "found"
    /\ deepen.depth >= 1
    /\ now >= deepen.now
    /\ IF search.best_move = None
       THEN /\ pc' = "panic"
            /\ UNCHANGED deepen
       ELSE /\ \E millis \in {now - deepen.start} :
                 /\ deepen' = [deepen EXCEPT !.best_move = search.best_move,
                                             !.now = now,
                                             !.millis = millis,
                                             !.depth = IF millis >= deepen.max_time_millis
                                                          \/ deepen.depth = deepen.max_depth
                                                       THEN @ ELSE @ + 1]
                 /\ pc' = IF millis >= deepen.max_time_millis
                             \/ deepen.depth = deepen.max_depth
                          THEN "done" ELSE "call"
    /\ UNCHANGED <<board, move_list, generated, hist, last, fen_in, fen_out, search, uci, word, magic>>

NextDeepen ==
    \/ \E max_depth \in 1 .. MaxDeepenDepth, max_time_millis \in 0 .. MaxDeadline :
          StartDeepening(max_depth, max_time_millis)
    \/ DeepenCall
    \/ SearchStep
    \/ SearchReturn
    \/ \E now \in 0 .. MaxClock : DeepenBoundary(now)

SpecDeepen == InitDeepen /\ [][NextDeepen]_vars

\* ------------------------------------------------------------ the bit scan
\* lsb_idx and pop_lsb as bitboard.rs computes them, on u64 words.  A word is the set
\* of its set bits, as everywhere in this module; + and * are carried out bit by bit
\* on 64 bits, so no intermediate value is cut to fewer bits than the source keeps.

LSB_64_TABLE ==
    <<63, 30,  3, 32, 25, 41, 22, 33,
      15, 50, 42, 13, 11, 53, 19, 34,
      61, 29,  2, 51, 21, 43, 45, 10,
      18, 47,  1, 54,  9, 57,  0, 35,
      62, 31, 40,  4, 49,  5, 52, 26,
      60,  6, 23, 44, 46, 27, 56, 16,
       7, 39, 48, 24, 59, 14, 12, 55,
      38, 28, 58, 20, 37, 17, 36,  8>>

\* the literal 0x783A9B23, typed u64 by the multiplication it stands in
LSB_MAGIC == {0, 1, 5, 8, 9, 11, 12, 15, 17, 19, 20, 21, 27, 28, 29, 30}

\* the literal 0xffffffff
LOW_32 == 0 .. 31

\* a ^ b
WordXor(a, b) == (a \ b) \cup (b \ a)

\* a + b on u64: the carry out of bit 63 is lost
RECURSIVE WordAddFrom(_, _, _, _)
WordAddFrom(a, b, i, carry) ==
    IF i = 64 THEN {}
    ELSE LET n == (IF i \in a THEN 1 ELSE 0) + (IF i \in b THEN 1 ELSE 0) + carry
         IN (IF n % 2 = 1 THEN {i} ELSE {}) \cup WordAddFrom(a, b, i + 1, n \div 2)

WordAdd(a, b) == WordAddFrom(a, b, 0, 0)

\* the sum on u64 of the words ws[lo] .. ws[hi]
RECURSIVE WordSum(_, _, _)
WordSum(ws, lo, hi) ==
    IF lo > hi THEN {}
    ELSE IF lo = hi THEN ws[lo]
    ELSE WordAdd(WordSum(ws, lo, (lo + hi) \div 2), WordSum(ws, (lo + hi) \div 2 + 1, hi))

\* a * b on u64 (wrapping): the sum of a << k over the set bits k of b
WordMul(a, b) ==
    LET Partial(bits) == WordSum([n \in 1 .. Len(bits) |-> ShiftLeft(a, bits[n])], 1, Len(bits))
    IN Partial(BitsOf(b))

\* x - 1 for x != 0: the lowest set bit is cleared and every bit below it is set
WordMinusOne(x) == (x \ {Min(x)}) \cup {i \in 0 .. 63 : i < Min(x)}

\* the value of a word that fits the table index
RECURSIVE WordValue(_)
WordValue(w) == IF w = {} THEN 0 ELSE 2 ^ Min(w) + WordValue(w \ {Min(w)})

\* let b = *self ^ (*self - 1); let folded = (b & 0xffffffff) ^ (b >> 32);
\* let idx = ((folded * 0x783A9B23) >> 26) as usize: the u64 that indexes the table
LsbTableIndex(bb) ==
    LET Folded(b) == WordXor(b \cap LOW_32, ShiftRight(b, 32))
    IN ShiftRight(WordMul(Folded(WordXor(bb, WordMinusOne(bb))), LSB_MAGIC), 26)

\* LSB_64_TABLE[idx]: an index of 64 or more fails the bounds check, written None
LsbLookup(idx) == IF idx \subseteq 0 .. 5 THEN LSB_64_TABLE[WordValue(idx) + 1] ELSE None

\* BitBoardUtils::lsb_idx on a u64: the index computed, what the call returns and the
\* word it leaves
lsb_idx(bb) ==
    [index |-> LsbTableIndex(bb), result |-> LsbLookup(LsbTableIndex(bb)), bb |-> bb]

\* BitBoardUtils::pop_lsb on a u64: *self &= *self - 1 runs before the table is read
pop_lsb(bb) ==
    [index |-> LsbTableIndex(bb), result |-> LsbLookup(LsbTableIndex(bb)),
     bb |-> bb \cap WordMinusOne(bb)]

\* the words handed to the bit scan: every single bit, every pair that holds bit 0 or
\* bit 63, and the full board
WordInputs ==
    {{i} : i \in 0 .. 63} \cup {{0, i} : i \in 1 .. 63} \cup {{i, 63} : i \in 0 .. 62}
    \cup {FULL_BB}

InitBits ==
    /\ word \in {[bb |-> w, prev |-> w, op |-> "none", index |-> {}, result |-> None] :
                    w \in WordInputs}
    /\ board = EmptyBoard
    /\ move_list = <<>>
    /\ generated = FALSE
    /\ hist = <<>>
    /\ last = [op |-> "none", move |-> None, prev |-> EmptyBoard]
    /\ fen_in = <<>>
    /\ fen_out = <<>>
    /\ pc = "bits"
    /\ search = NoSearch
    /\ uci = NoUci
    /\ deepen = NoDeepen
    /\ magic = NoMagic

\* bb.lsb_idx() on a non-zero word
LsbIdx ==
    /\ pc = "bits"
    /\ word.bb # {}
    /\ \E r \in {lsb_idx(word.bb)} :
          /\ word' = [bb |-> r.bb, prev |-> word.bb, op |-> "lsb_idx", index |-> r.index,
                      result |-> r.result]
          /\ pc' = IF r.result = None THEN "panic" ELSE "bits"
    /\ UNCHANGED <<board, move_list, generated, hist, last, fen_in, fen_out, search, uci,
                   deepen, magic>>

\* bb.pop_lsb() on a non-zero word
PopLsb ==
    /\ pc = "bits"
    /\ word.bb # {}
    /\ \E r \in {pop_lsb(word.bb)} :
          /\ word' = [bb |-> r.bb, prev |-> word.bb, op |-> "pop_lsb", index |-> r.index,
                      result |-> r.result]
          /\ pc' = IF r.result = None THEN "panic" ELSE "bits"
    /\ UNCHANGED <<board, move_list, generated, hist, last, fen_in, fen_out, search, uci,
                   deepen, magic>>

NextBits ==
    \/ LsbIdx
    \/ PopLsb

SpecBits == InitBits /\ [][NextBits]_vars

\* ------------------------------------------------------- the command loop (uci.rs)

\* board.rs:17
STARTING_FEN ==
    <<"r", "n", "b", "q", "k", "b", "n", "r", "/", "p", "p", "p", "p", "p", "p", "p", "p", "/", "8", "/", "8", "/", "8", "/", "8", "/", "P", "P", "P", "P", "P", "P", "P", "P", "/", "R", "N", "B", "Q", "K", "B", "N", "R", " ", "w", " ", "K", "Q", "k", "q", " ", "-", " ", "0", " ", "1">>

\* uci.rs:10
MAX_DEPTH == 6

\* the words the loop matches its tokens against (uci.rs:57-129)
KwIsready == <<"i", "s", "r", "e", "a", "d", "y">>
KwUcinewgame == <<"u", "c", "i", "n", "e", "w", "g", "a", "m", "e">>
KwUci == <<"u", "c", "i">>
KwQuit == <<"q", "u", "i", "t">>
KwD == <<"d">>
KwPosition == <<"p", "o", "s", "i", "t", "i", "o", "n">>
KwFen == <<"f", "e", "n">>
KwStartpos == <<"s", "t", "a", "r", "t", "p", "o", "s">>
KwGo == <<"g", "o">>
KwPerft == <<"p", "e", "r", "f", "t">>
KwDepth == <<"d", "e", "p", "t", "h">>

\* ------------------------------------------------------- the lines read from stdin

\* "": an empty line
LineEmpty ==
    <<>>

\* "isready": isready
LineIsready ==
    <<"i", "s", "r", "e", "a", "d", "y">>

\* "foo bar": a command the loop does not know
LineUnknown ==
    <<"f", "o", "o", " ", "b", "a", "r">>

\* "d": d
LineShow ==
    <<"d">>

\* "ucinewgame": ucinewgame
LineNewGame ==
    <<"u", "c", "i", "n", "e", "w", "g", "a", "m", "e">>

\* "quit": quit
LineQuit ==
    <<"q", "u", "i", "t">>

\* "position": position with nothing after it
LinePosition ==
    <<"p", "o", "s", "i", "t", "i", "o", "n">>

\* "position here": position with neither fen nor startpos
LinePositionOther ==
    <<"p", "o", "s", "i", "t", "i", "o", "n", " ", "h", "e", "r", "e">>

\* "position fen 7k/8/8/8/8/8/8/K7 w - -": position fen with four fields
LineFenShort ==
    <<"p", "o", "s", "i", "t", "i", "o", "n", " ", "f", "e", "n", " ", "7", "k", "/", "8", "/", "8", "/", "8", "/", "8", "/", "8", "/", "8", "/", "K", "7", " ", "w", " ", "-", " ", "-">>

\* "position startpos moves e2e4 e7e5": two legal moves from the start position
LineStartposMoves ==
    <<"p", "o", "s", "i", "t", "i", "o", "n", " ", "s", "t", "a", "r", "t", "p", "o", "s", " ", "m", "o", "v", "e", "s", " ", "e", "2", "e", "4", " ", "e", "7", "e", "5">>

\* "position startpos moves e2e4 e2e4 e7e5": the second move is not legal, the third would be
LineStartposIllegal ==
    <<"p", "o", "s", "i", "t", "i", "o", "n", " ", "s", "t", "a", "r", "t", "p", "o", "s", " ", "m", "o", "v", "e", "s", " ", "e", "2", "e", "4", " ", "e", "2", "e", "4", " ", "e", "7", "e", "5">>

\* "position fen 7k/5Q2/8/8/8/8/8/K7 b - - 0 1": a position whose side to move has no legal move
LineFenStalemate ==
    <<"p", "o", "s", "i", "t", "i", "o", "n", " ", "f", "e", "n", " ", "7", "k", "/", "5", "Q", "2", "/", "8", "/", "8", "/", "8", "/", "8", "/", "8", "/", "K", "7", " ", "b", " ", "-", " ", "-", " ", "0", " ", "1">>

\* "position fen 8/8/8/2k5/3Pp3/8/8/4K3 b - d3 0 1 moves e4d3 e1d1": an en-passant capture and a king move
LineFenEnPassant ==
    <<"p", "o", "s", "i", "t", "i", "o", "n", " ", "f", "e", "n", " ", "8", "/", "8", "/", "8", "/", "2", "k", "5", "/", "3", "P", "p", "3", "/", "8", "/", "8", "/", "4", "K", "3", " ", "b", " ", "-", " ", "d", "3", " ", "0", " ", "1", " ", "m", "o", "v", "e", "s", " ", "e", "4", "d", "3", " ", "e", "1", "d", "1">>

\* "position fen 7k/8/8/8/8/8/8/K7 w - zz 0 1": the en-passant field is not a square
LineFenBadEnPassant ==
    <<"p", "o", "s", "i", "t", "i", "o", "n", " ", "f", "e", "n", " ", "7", "k", "/", "8", "/", "8", "/", "8", "/", "8", "/", "8", "/", "8", "/", "K", "7", " ", "w", " ", "-", " ", "z", "z", " ", "0", " ", "1">>

\* "position fen 7k/8/8/8/8/8/8/K7 w - - x 1": the halfmove clock is not a number
LineFenBadClock ==
    <<"p", "o", "s", "i", "t", "i", "o", "n", " ", "f", "e", "n", " ", "7", "k", "/", "8", "/", "8", "/", "8", "/", "8", "/", "8", "/", "8", "/", "K", "7", " ", "w", " ", "-", " ", "-", " ", "x", " ", "1">>

\* "position fen 7k/8/8/8/8/8/8/K7 x - - 0 1": the side is neither w nor b
LineFenBadSide ==
    <<"p", "o", "s", "i", "t", "i", "o", "n", " ", "f", "e", "n", " ", "7", "k", "/", "8", "/", "8", "/", "8", "/", "8", "/", "8", "/", "8", "/", "K", "7", " ", "x", " ", "-", " ", "-", " ", "0", " ", "1">>

\* "position fen 7k/8/8/8/8/8/8/K6z w - - 0 1": a piece character that is none
LineFenBadPiece ==
    <<"p", "o", "s", "i", "t", "i", "o", "n", " ", "f", "e", "n", " ", "7", "k", "/", "8", "/", "8", "/", "8", "/", "8", "/", "8", "/", "8", "/", "K", "6", "z", " ", "w", " ", "-", " ", "-", " ", "0", " ", "1">>

\* "position fen 7k/8/8/8/8/8/K7 w - - 0 1": fewer than 64 squares
LineFenFewSquares ==
    <<"p", "o", "s", "i", "t", "i", "o", "n", " ", "f", "e", "n", " ", "7", "k", "/", "8", "/", "8", "/", "8", "/", "8", "/", "8", "/", "K", "7", " ", "w", " ", "-", " ", "-", " ", "0", " ", "1">>

\* "position fen 7k/8/8/8/8/8/8/K7 w X - 0 1": an unknown castling character
LineFenBadCastling ==
    <<"p", "o", "s", "i", "t", "i", "o", "n", " ", "f", "e", "n", " ", "7", "k", "/", "8", "/", "8", "/", "8", "/", "8", "/", "8", "/", "8", "/", "K", "7", " ", "w", " ", "X", " ", "-", " ", "0", " ", "1">>

\* "go depth 1": go depth 1
LineGoDepth1 ==
    <<"g", "o", " ", "d", "e", "p", "t", "h", " ", "1">>

\* "go depth 0": go depth 0
LineGoDepth0 ==
    <<"g", "o", " ", "d", "e", "p", "t", "h", " ", "0">>

\* "go depth 7": a depth beyond MAX_DEPTH
LineGoDepth7 ==
    <<"g", "o", " ", "d", "e", "p", "t", "h", " ", "7">>

\* "go depth": go depth with no number
LineGoDepth ==
    <<"g", "o", " ", "d", "e", "p", "t", "h">>

\* "go depth x": go depth with a word for the number
LineGoDepthX ==
    <<"g", "o", " ", "d", "e", "p", "t", "h", " ", "x">>

\* "go": go: a search of depth 6
LineGo ==
    <<"g", "o">>

\* "go perft": go perft with no depth
LineGoPerft ==
    <<"g", "o", " ", "p", "e", "r", "f", "t">>

\* "go perft x": go perft with a word for the depth
LineGoPerftX ==
    <<"g", "o", " ", "p", "e", "r", "f", "t", " ", "x">>

\* "go perft 1": go perft 1
LineGoPerft1 ==
    <<"g", "o", " ", "p", "e", "r", "f", "t", " ", "1">>

\* "go perft 0": go perft 0
LineGoPerft0 ==
    <<"g", "o", " ", "p", "e", "r", "f", "t", " ", "0">>

\* "go depth 2": go depth 2
LineGoDepth2 ==
    <<"g", "o", " ", "d", "e", "p", "t", "h", " ", "2">>

\* "go perft 2": go perft 2
LineGoPerft2 ==
    <<"g", "o", " ", "p", "e", "r", "f", "t", " ", "2">>

UciLines ==
    {LineEmpty,
     LineIsready,
     LineUnknown,
     LineShow,
     LineNewGame,
     LineQuit,
     LinePosition,
     LinePositionOther,
     LineFenShort,
     LineStartposMoves,
     LineStartposIllegal,
     LineFenStalemate,
     LineFenEnPassant,
     LineFenBadEnPassant,
     LineFenBadClock,
     LineFenBadSide,
     LineFenBadPiece,
     LineFenFewSquares,
     LineFenBadCastling,
     LineGoDepth1,
     LineGoDepth0,
     LineGoDepth7,
     LineGoDepth,
     LineGoDepthX,
     LineGo,
     LineGoPerft,
     LineGoPerftX,
     LineGoPerft1,
     LineGoPerft0,
     LineGoDepth2,
     LineGoPerft2}

\* the largest number of lines read from stdin
MaxLines == 2
\* the deepest search a go command is followed through on a position with legal moves
MaxGoDepth == 1
\* the deepest perft a go perft command is followed through
MaxPerftDepth == 1

\* Board::default (board.rs:818-822)
BoardDefault == BoardNew(STARTING_FEN).board

\* Board::reset, as the specification describes it: back to the start position
reset(b) == BoardNew(STARTING_FEN).board

\* the index in ml, from i on, of the first move whose text is the token; 0 when
\* there is none (uci.rs:24-29)
RECURSIVE FirstMatch(_, _, _)
FirstMatch(ml, token, i) ==
    IF i > Len(ml) THEN 0
    ELSE IF move_to_string(ml[i]) = token THEN i
    ELSE FirstMatch(ml, token, i + 1)

RECURSIVE ParseMovesLoop(_, _, _)

\* the token tokens[k] is skipped when no generated move has its text
ParseMatchedSkipsToken(g, tokens, k, i) ==
    IF i = 0 THEN ParseMovesLoop(g.board, tokens, k + 1)
    ELSE ParseMovesLoop(make_move(g.board, g.ml[i]).board, tokens, k + 1)

\* the body of the loop of parse_moves after gen_moves: the matching move is made
\* and the loop goes on, or the loop ends (uci.rs:24-32)
ParseMatched(g, tokens, k, i) ==
    IF i = 0 THEN g.board
    ELSE ParseMovesLoop(make_move(g.board, g.ml[i]).board, tokens, k + 1)

ParseGenerated(g, tokens, k) == ParseMatched(g, tokens, k, FirstMatch(g.ml, tokens[k], 1))

\* the loop of parse_moves from the token tokens[k] on (uci.rs:22-33)
ParseMovesLoop(b, tokens, k) ==
    IF k > Len(tokens) THEN b ELSE ParseGenerated(gen_moves(b), tokens, k)

\* parse_moves (uci.rs:12-34): skip(start_idx + 1) leaves the tokens after "moves"
parse_moves(b, tokens, start_idx) == ParseMovesLoop(b, tokens, start_idx + 2)

\* the six tokens after "fen", each followed by a blank (uci.rs:83-87)
FenOfTokens(tokens) ==
    tokens[3] \o <<" ">> \o tokens[4] \o <<" ">> \o tokens[5] \o <<" ">>
        \o tokens[6] \o <<" ">> \o tokens[7] \o <<" ">> \o tokens[8] \o <<" ">>

\* position fen up to parse_moves (uci.rs:88-96): moves is the start_idx parse_moves
\* is called with, None when it is not called
PositionLoaded(b, tokens, r) ==
    CASE r.status = "panic" -> [status |-> "panic", board |-> r.board, moves |-> None]
      [] r.status = "err" -> [status |-> "restored", board |-> b, moves |-> None]
      [] OTHER -> [status |-> "loaded", board |-> r.board,
                   moves |-> IF Len(tokens) >= 9 THEN 8 ELSE None]

\* position fen up to parse_moves (uci.rs:78-96)
PositionFen(b, tokens) ==
    IF Len(tokens) >= 8
    THEN PositionLoaded(b, tokens, load_fen(b, FenOfTokens(tokens)))
    ELSE [status |-> "ignored", board |-> b, moves |-> None]

\* position startpos up to parse_moves (uci.rs:101-105)
PositionStartpos(b, tokens) ==
    [status |-> "loaded", board |-> reset(b), moves |-> IF Len(tokens) >= 3 THEN 2 ELSE None]

\* the position command up to parse_moves (uci.rs:75-112)
PositionLoad(b, tokens) ==
    IF Len(tokens) < 2 THEN [status |-> "ignored", board |-> b, moves |-> None]
    ELSE CASE tokens[2] = KwFen -> PositionFen(b, tokens)
           [] tokens[2] = KwStartpos -> PositionStartpos(b, tokens)
           [] OTHER -> [status |-> "ignored", board |-> b, moves |-> None]

\* the call of parse_moves that ends the position command (uci.rs:96-98, 105-107)
PositionMoves(r, tokens) ==
    IF r.moves = None THEN r.board ELSE parse_moves(r.board, tokens, r.moves)

\* the while loop of go from the token tokens[i] on (uci.rs:127-135): the depth, or
\* None when tokens[i + 1] is out of bounds or parse().unwrap() is called on an Err
RECURSIVE GoDepthLoop(_, _, _)
GoDepthLoop(tokens, i, depth) ==
    IF i > Len(tokens) THEN depth
    ELSE IF tokens[i] # KwDepth THEN GoDepthLoop(tokens, i + 1, depth)
    ELSE IF i + 1 > Len(tokens) THEN None
    ELSE IF parse_usize(tokens[i + 1]) = None THEN None
    ELSE GoDepthLoop(tokens, i + 1, parse_usize(tokens[i + 1]))

\* the depth go searches to (uci.rs:122-135)
GoDepth(tokens) == GoDepthLoop(tokens, 2, 6)

\* the loop of find_best_move run to its end (search.rs:105-135)
RECURSIVE RootLoop(_, _)
RootLoopNext(r) == RootLoop(r.state, r.board)
RootLoop(s, b) ==
    IF s.i > Len(s.list) THEN [state |-> s, board |-> b]
    ELSE RootLoopNext(RootStep(s, b))

RootLoopStart(r) == RootLoop(r.state, r.board)

\* find_best_move (search.rs:87-142)
find_best_move(max_depth, b) == RootLoopStart(RootStart(max_depth, b))

GoSearched(r) ==
    [status |-> IF r.state.best_move = None THEN "nomove" ELSE "bestmove",
     board |-> r.board, search |-> r.state, nodes |-> 0]

\* go with a search (uci.rs:122-146): move_lists has MAX_DEPTH lists, and
\* find_best_move indexes it with max_depth - 1 (search.rs:98)
GoSearch(b, s, depth) ==
    IF depth = None \/ depth = 0 \/ depth > MAX_DEPTH
    THEN [status |-> "panic", board |-> b, search |-> s, nodes |-> 0]
    ELSE GoSearched(find_best_move(depth, b))

\* perft (perft.rs:5-24): the nodes counted and the board it leaves
RECURSIVE perft(_, _)

\* one turn of the loop of perft (perft.rs:16-20): the count and the board after it
PerftUndone(nodes, my_move, m, sub) ==
    [nodes |-> nodes + sub.nodes, board |-> undo_move(sub.board, my_move, m.info)]
PerftMade(depth, nodes, my_move, m) ==
    PerftUndone(nodes, my_move, m, perft(depth - 1, m.board))
PerftTurn(depth, nodes, b, my_move) == PerftMade(depth, nodes, my_move, make_move(b, my_move))

\* the loop of perft from the move at index i on (perft.rs:15-21); the turn is
\* worked out before the next one is entered
RECURSIVE PerftLoop(_, _, _, _, _)
PerftLoop(depth, ml, i, nodes, b) ==
    IF i > Len(ml) THEN [nodes |-> nodes, board |-> b]
    ELSE CHOOSE rest \in {PerftLoop(depth, ml, i + 1, r.nodes, r.board) :
                              r \in {PerftTurn(depth, nodes, b, ml[i])}} : TRUE

PerftGenerated(depth, g) ==
    IF depth <= 1 THEN [nodes |-> Len(g.ml), board |-> g.board]
    ELSE PerftLoop(depth, g.ml, 1, 0, g.board)

perft(depth, b) == PerftGenerated(depth, gen_moves(b))

\* one turn of the loop of perft_divide (perft.rs:40-47)
DivideUndone(nodes, my_move, m, sub) ==
    [nodes |-> nodes + sub.nodes, board |-> undo_move(sub.board, my_move, m.info)]
DivideMade(depth, nodes, my_move, m) ==
    DivideUndone(nodes, my_move, m,
                 IF depth <= 1 THEN [nodes |-> 1, board |-> m.board]
                 ELSE perft(depth - 1, m.board))
DivideTurn(depth, nodes, b, my_move) == DivideMade(depth, nodes, my_move, make_move(b, my_move))

\* the loop of perft_divide from the move at index i on (perft.rs:39-48)
RECURSIVE DivideLoop(_, _, _, _, _)
DivideLoop(depth, ml, i, nodes, b) ==
    IF i > Len(ml) THEN [nodes |-> nodes, board |-> b]
    ELSE CHOOSE rest \in {DivideLoop(depth, ml, i + 1, r.nodes, r.board) :
                              r \in {DivideTurn(depth, nodes, b, ml[i])}} : TRUE

DivideGenerated(depth, g) == DivideLoop(depth, g.ml, 1, 0, g.board)

\* perft_divide (perft.rs:26-53): move_lists has depth lists and is indexed with
\* depth - 1
perft_divide(depth, b) ==
    IF depth = 0 THEN [status |-> "panic", nodes |-> 0, board |-> b]
    ELSE [status |-> "perft"] @@ DivideGenerated(depth, gen_moves(b))

GoPerftCounted(s, r) ==
    [status |-> r.status, board |-> r.board, search |-> s, nodes |-> r.nodes]

\* the go command (uci.rs:113-147)
go(b, s, tokens) ==
    IF Len(tokens) >= 3 /\ tokens[2] = KwPerft
    THEN IF parse_usize(tokens[3]) = None
         THEN [status |-> "ignored", board |-> b, search |-> s, nodes |-> 0]
         ELSE GoPerftCounted(s, perft_divide(parse_usize(tokens[3]), b))
    ELSE GoSearch(b, s, GoDepth(tokens))

\* whether the go command is one the machine follows through
GoFollowed(b, tokens) ==
    IF Len(tokens) >= 3 /\ tokens[2] = KwPerft
    THEN parse_usize(tokens[3]) = None \/ parse_usize(tokens[3]) <= MaxPerftDepth
    ELSE \/ GoDepth(tokens) = None
         \/ GoDepth(tokens) = 0
         \/ GoDepth(tokens) > MAX_DEPTH
         \/ GoDepth(tokens) <= MaxGoDepth
         \/ gen_moves(b).ml = <<>>

\* uci() up to its loop (uci.rs:38-44)
InitUci ==
    /\ fen_in = STARTING_FEN
    /\ board = BoardDefault
    /\ move_list = <<>>
    /\ generated = FALSE
    /\ hist = <<>>
    /\ last = [op |-> "new", move |-> None, prev |-> board]
    /\ fen_out = <<>>
    /\ pc = "uci"
    /\ search = NoSearch
    /\ uci = NoUci
    /\ deepen = NoDeepen
    /\ word = NoWord
    /\ magic = NoMagic

\* read_line and split_whitespace (uci.rs:47-50)
ReadLine(line, status, nodes) ==
    /\ uci' = [lines |-> uci.lines + 1, line |-> line, status |-> status, nodes |-> nodes]
    /\ last' = [op |-> "line", move |-> None, prev |-> board]
    /\ pc' = IF status = "panic" THEN "panic" ELSE IF status = "quit" THEN "quit" ELSE "uci"

\* an empty line, isready, uci, d and every unknown command (uci.rs:52-59, 63-67,
\* 71-74, 148): the board is left alone
UciOther(line) ==
    /\ pc = "uci"
    /\ uci.lines < MaxLines
    /\ \/ split_whitespace(line) = <<>>
       \/ /\ split_whitespace(line) # <<>>
          /\ split_whitespace(line)[1] \notin {KwUcinewgame, KwQuit, KwPosition, KwGo}
    /\ ReadLine(line, IF split_whitespace(line) # <<>>
                         /\ split_whitespace(line)[1] \in {KwIsready, KwUci, KwD}
                      THEN "printed" ELSE "ignored", 0)
    /\ UNCHANGED <<board, move_list, generated, hist, fen_in, fen_out, search, deepen, word, magic>>

\* ucinewgame (uci.rs:60-62)
UciNewGame(line) ==
    /\ pc = "uci"
    /\ uci.lines < MaxLines
    /\ split_whitespace(line) # <<>>
    /\ split_whitespace(line)[1] = KwUcinewgame
    /\ board' = reset(board)
    /\ ReadLine(line, "reset", 0)
    /\ UNCHANGED <<move_list, generated, hist, fen_in, fen_out, search, deepen, word, magic>>

\* quit (uci.rs:68-70)
UciQuit(line) ==
    /\ pc = "uci"
    /\ uci.lines < MaxLines
    /\ split_whitespace(line) # <<>>
    /\ split_whitespace(line)[1] = KwQuit
    /\ ReadLine(line, "quit", 0)
    /\ UNCHANGED <<board, move_list, generated, hist, fen_in, fen_out, search, deepen, word, magic>>

\* position (uci.rs:75-112)
UciPosition(line) ==
    /\ pc = "uci"
    /\ uci.lines < MaxLines
    /\ split_whitespace(line) # <<>>
    /\ split_whitespace(line)[1] = KwPosition
    /\ \E r \in {PositionLoad(board, split_whitespace(line))} :
          /\ \E b \in {PositionMoves(r, split_whitespace(line))} : board' = b
          /\ ReadLine(line, r.status, 0)
    /\ UNCHANGED <<move_list, generated, hist, fen_in, fen_out, search, deepen, word, magic>>

\* go (uci.rs:113-147)
UciGo(line) ==
    /\ pc = "uci"
    /\ uci.lines < MaxLines
    /\ split_whitespace(line) # <<>>
    /\ split_whitespace(line)[1] = KwGo
    /\ GoFollowed(board, split_whitespace(line))
    /\ \E r \in {go(board, search, split_whitespace(line))} :
          /\ board' = r.board
          /\ search' = r.search
          /\ ReadLine(line, r.status, r.nodes)
    /\ UNCHANGED <<move_list, generated, hist, fen_in, fen_out, deepen, word, magic>>

NextUci ==
    \/ \E line \in UciLines : UciOther(line)
    \/ \E line \in UciLines : UciNewGame(line)
    \/ \E line \in UciLines : UciQuit(line)
    \/ \E line \in UciLines : UciPosition(line)
    \/ \E line \in UciLines : UciGo(line)

SpecUci == InitUci /\ [][NextUci]_vars

\* ------------------------------------------- the generator on loaded positions

\* 4k3/1b6/8/2pP4/8/8/8/7K w - c6 0 1: a pawn pinned on the long diagonal that may capture en passant along the pin
FenPinnedCapturer ==
    <<"4", "k", "3", "/", "1", "b", "6", "/", "8", "/", "2", "p", "P", "4", "/", "8", "/", "8", "/", "8", "/", "7", "K", " ", "w", " ", "-", " ", "c", "6", " ", "0", " ", "1">>

\* 4k3/1b6/8/3P4/8/8/8/7K w - c6 0 1: the same pinned pawn and target, with no pawn behind the target
FenPinnedCapturerBare ==
    <<"4", "k", "3", "/", "1", "b", "6", "/", "8", "/", "3", "P", "4", "/", "8", "/", "8", "/", "8", "/", "7", "K", " ", "w", " ", "-", " ", "c", "6", " ", "0", " ", "1">>

\* 8/8/8/8/k2Pp2R/8/8/4K3 b - d3 0 1: the capture would uncover the king's rank to the rook
FenRankUncovered ==
    <<"8", "/", "8", "/", "8", "/", "8", "/", "k", "2", "P", "p", "2", "R", "/", "8", "/", "8", "/", "4", "K", "3", " ", "b", " ", "-", " ", "d", "3", " ", "0", " ", "1">>

\* 4k3/8/8/8/4P3/8/3P4/4K3 w - e3 0 1: the target of White's own double push with White still to move
FenTargetOfMover ==
    <<"4", "k", "3", "/", "8", "/", "8", "/", "8", "/", "4", "P", "3", "/", "8", "/", "3", "P", "4", "/", "4", "K", "3", " ", "w", " ", "-", " ", "e", "3", " ", "0", " ", "1">>

GenFens ==
    {FenPinnedCapturer, FenPinnedCapturerBare, FenRankUncovered, FenTargetOfMover,
     FenEnPassant, FenPinned}

\* the row of the pawns that capture en passant for the side P to move, and the row of
\* the target square
CapturerRow(P) == IF P = White THEN 3 ELSE 4

TargetRow(P) == IF P = White THEN 2 ELSE 5

\* the piece placement of a position with the kings at home, P to move, an enemy pawn
\* on file t of the capturers' row (backed) and pawns of P to its west and to its east
TargetPieces(P, t, west, east, backed) ==
    [s \in AllSquares |->
        CASE s = E1 -> WhiteKing
          [] s = E8 -> BlackKing
          [] s = from_rf(CapturerRow(P), t) /\ backed -> pawn(enemy(P))
          [] s = from_rf(CapturerRow(P), t) - 1 /\ west /\ t > 0 -> pawn(P)
          [] s = from_rf(CapturerRow(P), t) + 1 /\ east /\ t < 7 -> pawn(P)
          [] OTHER -> None]

\* the FEN text of that position, with the square of file t on the target row as the
\* en-passant field (target) or with "-"
TargetFen(P, t, west, east, backed, target) ==
    to_fen([EmptyBoard EXCEPT
              !.pieces = TargetPieces(P, t, west, east, backed),
              !.current_color = P,
              !.castling = 0,
              !.en_passant = IF target THEN from_rf(TargetRow(P), t) ELSE None,
              !.full_move_count = 1])

TargetFens ==
    {TargetFen(P, t, west, east, backed, target) :
        P \in {White, Black}, t \in 0 .. 7, west \in BOOLEAN, east \in BOOLEAN,
        backed \in BOOLEAN, target \in BOOLEAN}

\* Board::new on a position as `position fen` or a perft test loads it (board.rs:797-815)
InitGen ==
    /\ fen_in \in GenFens \cup TargetFens
    /\ board = BoardNew(fen_in).board
    /\ move_list = <<>>
    /\ generated = FALSE
    /\ hist = <<>>
    /\ last = [op |-> "new", move |-> None, prev |-> board]
    /\ fen_out = <<>>
    /\ pc = "play"
    /\ search = NoSearch
    /\ uci = NoUci
    /\ deepen = NoDeepen
    /\ word = NoWord
    /\ magic = NoMagic

\* gen_moves is called once on the loaded Board (perft.rs:12)
NextGen == GenMoves

SpecGen == InitGen /\ [][NextGen]_vars

\* ------------------------------------------------------------ the magic tables
\* The fill of rook_moves[sq] and bishop_moves[sq] in MoveGenerator::init
\* (movegen.rs:535-544) and the lookups that read them (movegen.rs:660-671), with the
\* key computed on u64 words as the source computes it.  A magic number is written as
\* the set of its set bits; its decimal value in the source stands beside it.

\* ROOK_MAGICS (movegen.rs:1406), indexed by square + 1
ROOK_MAGICS ==
    <<{8, 13, 22, 39, 44, 56},  \* 72075735983988992
      {14, 15, 17, 28, 45, 54, 57},  \* 162164771226042368
      {13, 19, 31, 44, 55, 57, 58, 61},  \* 2774234964794286080
      {5, 10, 19, 32, 44, 56, 63},  \* 9295447227374240800
      {2, 16, 27, 36, 41, 56, 57, 61, 62},  \* 7133704077631881220
      {8, 19, 20, 34, 41, 56, 57, 59, 62},  \* 5404321769049293056
      {7, 24, 41, 55, 62, 63},  \* 13871089051341160576
      {7, 24, 30, 37, 44, 55, 62},  \* 4647732546161868928
      {3, 14, 23, 26, 29, 33, 47, 50, 60},  \* 1154188151204364296
      {1, 14, 16, 18, 24, 27, 31, 33, 37, 48},  \* 281623304421378
      {9, 13, 15, 23, 26, 28, 38, 49, 50, 56, 58, 63},  \* 9585349132126560768
      {7, 20, 35, 47, 55, 58},  \* 324399945019818112
      {7, 19, 34, 47, 50},  \* 1266654575591552
      {3, 10, 20, 33, 37, 49, 50, 52, 58},  \* 294422971669283848
      {8, 23, 33, 39, 47, 52, 63},  \* 9228016932324638976
      {7, 12, 24, 26, 30, 47, 48},  \* 422213622698112
      {5, 9, 15, 22, 26, 39, 42, 54},  \* 18019346383143456
      {13, 30, 38, 43, 52, 53},  \* 13519870926790656
      {8, 21, 28, 40, 41, 46, 47, 61, 62},  \* 6917743432679031040
      {3, 13, 28, 40, 48, 62},  \* 4611968593184169992
      {3, 15, 26, 39, 51, 53, 54, 55, 59, 61, 63},  \* 12170978542791720968
      {2, 14, 20, 29, 32, 43, 45, 57},  \* 144159173373870084
      {9, 18, 32, 40, 43, 45, 50, 56},  \* 73228578216739328
      {0, 2, 3, 4, 7, 18, 22, 23, 41},  \* 2199036100765
      {14, 31, 39, 45, 51, 54, 55},  \* 56330731617533952
      {13, 30, 38, 52, 57},  \* 148619063654883328
      {7, 20, 31, 33, 45, 52, 53, 62},  \* 4625232012420055168
      {12, 16, 21, 32, 35, 39, 48, 60, 62, 63},  \* 14988261623278407680
      {1, 11, 18, 32, 36, 48, 50, 55, 58, 60},  \* 1478588125675784194
      {3, 12, 14, 18, 33, 39, 49, 59},  \* 577024260602875912
      {9, 13, 18, 32, 33, 35, 48, 54, 57, 61},  \* 2468254118020653568
      {2, 7, 16, 33, 38, 47, 57},  \* 144256209032118404
      {3, 7, 9, 23, 38, 40, 43, 45, 52, 55},  \* 40577751509369480
      {1, 12, 22, 26, 30, 45, 61, 62},  \* 6917564213158219778
      {4, 13, 24, 32, 38, 53},  \* 9007478444400656
      {12, 24, 29, 40, 43, 49, 51, 54},  \* 20839044434890752
      {10, 23, 31, 33, 43, 48, 62},  \* 4611976300242928640
      {4, 11, 25, 32, 34, 49, 50, 52, 62},  \* 4617878489423415312
      {0, 11, 26, 28, 29, 36, 41, 44, 51, 53},  \* 11278859869620225
      {2, 5, 8, 25, 31, 38, 58},  \* 288230653210657060
      {15, 21, 31, 46, 59},  \* 576531123197214720
      {0, 5, 16, 17, 23, 38, 48, 49},  \* 844699816624161
      {13, 21, 34, 43, 52, 62},  \* 4616198431329755136
      {5, 16, 28, 40, 41, 43, 56, 58, 60},  \* 1513221569692893216
      {3, 15, 16, 23, 34, 51, 54, 59, 61, 63},  \* 12125942013883416584
      {2, 8, 19, 21, 30, 37, 44, 45, 47, 50, 62},  \* 4613005570896036100
      {4, 18, 25, 32, 43, 56},  \* 72066394459734032
      {2, 17, 23, 25, 29, 30, 34, 40, 44, 55, 59, 60},  \* 1765429764459462660
      {7, 13, 22, 39, 44, 54, 55, 58},  \* 342291713626218624
      {6, 8, 21, 22, 38, 52, 54},  \* 22518273021051200
      {7, 10, 11, 15, 28, 30, 45, 47, 48, 53},  \* 9464597434109056
      {9, 10, 12, 15, 22, 29, 35, 49, 55, 59},  \* 613052534176650752
      {8, 12, 17, 27, 34, 48, 51, 54},  \* 20547690614100224
      {7, 18, 33, 47},  \* 140746078552192
      {10, 16, 23, 28, 33, 43, 53, 55},  \* 45044801233552384
      {9, 14, 16, 26, 27, 32, 39, 41, 42, 53, 54},  \* 27028749086179840
      {0, 5, 7, 12, 14, 15, 31, 33, 38, 43, 48},  \* 290556685111457
      {1, 7, 16, 17, 20, 29, 33, 41, 46, 49, 58},  \* 288865903000617090
      {0, 2, 4, 16, 22, 27, 45, 50},  \* 1161084417409045
      {0, 5, 11, 28, 34, 40, 48, 49, 58},  \* 289075918041778209
      {1, 7, 10, 15, 19, 29, 36, 49, 56, 57, 61},  \* 2522578810537804930
      {0, 18, 20, 25, 35, 37, 38, 48, 50, 57, 60},  \* 1298444514277720065
      {2, 9, 12, 15, 27, 32, 44, 50},  \* 1143496522109444
      {1, 6, 16, 17, 26, 28, 31, 34, 37, 39, 61}>>  \* 2305843716071555138

\* BISHOP_MAGICS (movegen.rs:1472), indexed by square + 1
BISHOP_MAGICS ==
    <<{0, 4, 16, 24, 26, 36, 38, 44, 45, 50},  \* 1179020146311185
      {0, 1, 17, 20, 24, 31, 43, 44, 50, 57},  \* 145267478427205635
      {2, 9, 22, 27, 33, 39, 52},  \* 4504158111531524
      {3, 5, 12, 20, 25, 33, 37, 38, 39, 44, 50, 63},  \* 9224516499644878888
      {1, 6, 14, 24, 26, 36, 41, 49, 57},  \* 144680405855912002
      {23, 29, 34, 37, 40, 49, 51, 52, 62},  \* 4619005622497574912
      {13, 19, 25, 26, 34, 42, 50},  \* 1130315234418688
      {14, 17, 25, 30, 40, 48, 49, 52},  \* 5349125176573952
      {9, 19, 25, 29, 31, 33, 34, 44, 47, 54, 58, 60, 62},  \* 6071010655858065920
      {0, 5, 7, 15, 26, 29, 36, 43, 45, 51, 54},  \* 20310248111767713
      {16, 21, 26, 32, 37, 42, 44, 45, 57, 60},  \* 1297094009090539520
      {2, 6, 15, 21, 33, 35, 37, 43, 45, 52, 62},  \* 4616233778910625860
      {11, 12, 14, 20, 24, 28, 33, 41, 42, 61},  \* 2305849615159678976
      {1, 8, 9, 11, 18, 26, 31, 35, 41, 46, 51, 56},  \* 74381998193642242
      {0, 2, 11, 19, 27, 35, 38, 48, 50},  \* 1407684255942661
      {3, 10, 19, 25, 30, 31, 41, 44, 61},  \* 2305862803678299144
      {7, 11, 20, 22, 28, 31, 33, 35, 44, 52, 54},  \* 22535635693734016
      {2, 7, 9, 19, 26, 33, 52},  \* 4503608284938884
      {0, 9, 13, 16, 21, 23, 27, 34, 51, 53},  \* 11259016393073153
      {6, 14, 21, 29, 37, 40, 49, 55, 56},  \* 108650578499878976
      {1, 5, 14, 17, 19, 25, 34, 49, 52, 55},  \* 41095363813851170
      {8, 21, 23, 32, 34, 37, 47, 53, 63},  \* 9232520132522148096
      {6, 8, 12, 18, 21, 24, 34, 46},  \* 70385943187776
      {9, 12, 15, 24, 28, 33, 38, 42, 48, 50, 51, 63},  \* 9227035893351617024
      {0, 1, 11, 16, 17, 22, 30, 31, 43, 51, 60},  \* 1155182103739172867
      {8, 20, 22, 28, 33, 41, 50, 61, 63},  \* 11530343153862181120
      {10, 14, 16, 19, 26, 31, 33, 43, 45, 51},  \* 2295791083930624
      {9, 16, 22, 25, 42, 50},  \* 1130297991168512
      {2, 14, 24, 36, 48},  \* 281543712980996
      {0, 6, 7, 8, 16, 24, 41, 47, 50, 54, 58},  \* 307513611096490433
      {2, 4, 9, 10, 15, 18, 24, 41, 45, 51},  \* 2289183226103316
      {7, 15, 16, 17, 18, 19, 24, 26, 33, 39, 42, 50, 62},  \* 4612816874811392128
      {2, 12, 18, 26, 31, 35, 38, 43, 45, 52},  \* 4547891544985604
      {9, 13, 19, 22, 24, 30, 36, 38, 44, 45, 47, 60, 61},  \* 3458958372559659520
      {11, 18, 26, 33, 42, 44, 48},  \* 303473866573824
      {8, 11, 21, 32, 35, 45, 47, 59, 60},  \* 1729558217427519744
      {4, 12, 34, 42, 50, 52},  \* 5633914760597520
      {11, 16, 33, 40, 48, 58, 60},  \* 1441434463836899328
      {3, 4, 8, 9, 10, 18, 19, 32, 33, 36, 39, 41, 51, 54},  \* 20269028707403544
      {10, 14, 15, 17, 22, 25, 31, 34, 38, 50, 52, 57},  \* 149744981853258752
      {0, 9, 13, 19, 27, 35, 40, 51},  \* 2252933819802113
      {10, 15, 25, 35, 36, 41, 44, 50, 53, 60},  \* 1163074498090533888
      {6, 14, 25, 33, 41, 45, 47, 52},  \* 4681729134575680
      {11, 24, 25, 30, 32, 40, 44, 46, 47, 49, 53, 62},  \* 4621485970984798208
      {1, 6, 11, 12, 26, 28, 34, 45, 51, 52, 56, 58},  \* 367078571518203970
      {8, 25, 32, 39, 49, 56},  \* 72621098075685120
      {9, 26, 33, 41, 49, 56, 60},  \* 1225544256278495744
      {0, 9, 11, 13, 17, 23, 31, 32, 42, 48, 50},  \* 1411779381045761
      {3, 4, 16, 21, 26, 36, 41, 42, 45, 46, 50, 57, 59, 62},  \* 5333500077688291352
      {7, 21, 24, 33, 41, 46, 47, 52},  \* 4716913491968128
      {8, 20, 24, 33, 35, 37, 43, 52, 57},  \* 148627764202701056
      {0, 6, 12, 17, 25, 30, 49, 50},  \* 1688850967695425
      {1, 11, 12, 17, 23, 29, 34, 35, 37, 44},  \* 17781710002178
      {2, 16, 26, 32, 37, 38, 40, 42, 51, 54, 63},  \* 9243644149415084036
      {5, 9, 12, 17, 25, 36, 41, 51, 56, 57},  \* 218426849703891488
      {0, 2, 11, 12, 15, 22, 27, 34, 41, 53},  \* 9009415596316677
      {3, 4, 10, 18, 28, 30, 33, 40, 42, 48, 50},  \* 1412882374067224
      {12, 20, 22, 23, 32, 38},  \* 279186509824
      {12, 16, 22, 24, 25, 32, 39, 47, 51, 54},  \* 20407489916899328
      {10, 18, 23, 24, 31, 32, 33, 45, 47, 51, 62},  \* 4614113755159331840
      {9, 11, 12, 17, 28, 42, 57},  \* 144119586390940160
      {8, 13, 16, 18, 27, 28, 29, 38, 42, 54, 61, 63},  \* 11547234118442230016
      {9, 10, 19, 26, 34, 37, 42, 59, 62},  \* 5188151323463779840
      {7, 8, 15, 19, 26, 31, 45, 50, 51, 57, 58}>>  \* 435758450535334272
\* idx_to_u64 (movegen.rs:490-503): bit i of idx selects the i-th lowest bit of mask;
\* idx itself never changes, so the loop runs until mask is empty (or not at all for
\* idx = 0)
RECURSIVE IdxToU64From(_, _, _)
IdxToU64From(idx, mask, i) ==
    IF mask = {} THEN {}
    ELSE (IF (idx \div (2 ^ i)) % 2 = 1 THEN {LowestBit(mask)} ELSE {})
         \cup IdxToU64From(idx, mask \ {LowestBit(mask)}, i + 1)

idx_to_u64(idx, mask) == IF idx = 0 THEN {} ELSE IdxToU64From(idx, mask, 0)

\* rook_magic_shifts[sq] / bishop_magic_shifts[sq]: 64 - mask.count_1s()
MagicShift(mask) == 64 - count_1s(mask)

\* u64::wrapping_mul(MAGICS[sq], blockers) >> shift, as usize
MagicKeyOneBitShort(magic_number, blockers, shift) ==
    WordValue(ShiftRight(WordMul(magic_number, blockers), shift + 1))

MagicKey(magic_number, blockers, shift) ==
    WordValue(ShiftRight(WordMul(magic_number, blockers), shift))

MagicMask(kind, sq) == IF kind = "rook" THEN rook_masks[sq] ELSE bishop_masks[sq]

MagicNumber(kind, sq) == IF kind = "rook" THEN ROOK_MAGICS[sq + 1] ELSE BISHOP_MAGICS[sq + 1]

\* gen_rook_moves / gen_bishop_moves, the entry init stores
MagicEntry(kind, sq, blockers) ==
    IF kind = "rook" THEN gen_rook_moves(sq, blockers) ELSE gen_bishop_moves(sq, blockers)

\* 1 << mask.count_1s(), the end of the fill loop
SubsetCount(mask) == 2 ^ count_1s(mask)

\* the tables filled: the bishop table of a corner, of an edge square and of a centre
\* square, and the rook table of a centre square
MagicTables == {<<"bishop", 0>>, <<"bishop", 48>>, <<"bishop", 27>>, <<"rook", 27>>}

\* most pieces standing on the relevance mask in an occupancy handed to a lookup
MaxBlockers == 2

\* the occupancies handed to a lookup of sq: up to MaxBlockers pieces on the mask, or
\* every square of it, with or without pieces on every square off the mask
LookupInputs(kind, sq) ==
    {on \cup off :
        on \in {s \in SUBSET MagicMask(kind, sq) :
                    Cardinality(s) <= MaxBlockers \/ s = MagicMask(kind, sq)},
        off \in {{}, (AllSquares \ MagicMask(kind, sq)) \ {sq}}}

\* one row of the table as MoveGenerator::new allocates it (movegen.rs:635-636): all
\* zero.  The row has 4096 entries; a key is below 1 << mask.count_1s() by its shift,
\* and only these entries are kept
InitMagic ==
    /\ \E t \in MagicTables :
          magic = [kind |-> t[1], sq |-> t[2], idx |-> 0,
                   moves |-> [k \in 0 .. SubsetCount(MagicMask(t[1], t[2])) - 1 |-> {}],
                   op |-> "none", key |-> 0, prev |-> {}, blockers |-> {}, result |-> {}]
    /\ board = EmptyBoard
    /\ move_list = <<>>
    /\ generated = FALSE
    /\ hist = <<>>
    /\ last = [op |-> "none", move |-> None, prev |-> EmptyBoard]
    /\ fen_in = <<>>
    /\ fen_out = <<>>
    /\ pc = "init"
    /\ search = NoSearch
    /\ uci = NoUci
    /\ deepen = NoDeepen
    /\ word = NoWord

\* one turn of the fill loop (movegen.rs:535-539 for the rook table, 540-544 for the
\* bishop table): the entry at the key is assigned, whatever it held
MagicFill ==
    /\ pc = "init"
    /\ magic.idx < SubsetCount(MagicMask(magic.kind, magic.sq))
    /\ \E indexed_mask \in {idx_to_u64(magic.idx, MagicMask(magic.kind, magic.sq))} :
          \E key \in {MagicKey(MagicNumber(magic.kind, magic.sq), indexed_mask,
                               MagicShift(MagicMask(magic.kind, magic.sq)))} :
             magic' = [magic EXCEPT
                          !.moves = [@ EXCEPT ![key] =
                                        MagicEntry(magic.kind, magic.sq, indexed_mask)],
                          !.idx = @ + 1, !.op = "fill", !.key = key,
                          !.prev = magic.moves[key], !.blockers = indexed_mask]
    /\ pc' = IF magic.idx + 1 = SubsetCount(MagicMask(magic.kind, magic.sq))
             THEN "tables" ELSE "init"
    /\ UNCHANGED <<board, move_list, generated, hist, last, fen_in, fen_out, search, uci,
                   deepen, word>>

\* magic_bishop_moves / magic_rook_moves (movegen.rs:660-671) on the filled table.  A
\* lookup leaves the table as it is, so a behaviour follows the fill with one lookup
MagicLookup ==
    /\ pc = "tables"
    /\ \E occupancy \in LookupInputs(magic.kind, magic.sq) :
          \E key \in {MagicKey(MagicNumber(magic.kind, magic.sq),
                               occupancy \cap MagicMask(magic.kind, magic.sq),
                               MagicShift(MagicMask(magic.kind, magic.sq)))} :
             magic' = [magic EXCEPT !.op = "lookup", !.key = key, !.blockers = occupancy,
                                    !.result = magic.moves[key]]
    /\ pc' = "read"
    /\ UNCHANGED <<board, move_list, generated, hist, last, fen_in, fen_out, search, uci,
                   deepen, word>>

NextMagic ==
    \/ MagicFill
    \/ MagicLookup

SpecMagic == InitMagic /\ [][NextMagic]_vars

\* ------------------------------------------- the rules of chess, for reference
\* These definitions restate the rules on the piece-square array alone; they use no
\* bitboard, no attack table and no staging, and the properties below compare the
\* generator with them.

Abs(x) == IF x < 0 THEN 0 - x ELSE x

RefAligned(a, b) ==
    a # b /\ (rank(a) = rank(b) \/ file(a) = file(b)
              \/ Abs(rank(a) - rank(b)) = Abs(file(a) - file(b)))

RefStraight(a, b) == a # b /\ (rank(a) = rank(b) \/ file(a) = file(b))

RefDiagonal(a, b) == a # b /\ Abs(rank(a) - rank(b)) = Abs(file(a) - file(b))

\* s lies strictly between a and b on their common line
RefBetween(a, b, s) ==
    /\ RefAligned(a, b) /\ s # a /\ s # b
    /\ (rank(a) - rank(s)) * (file(s) - file(b)) = (rank(s) - rank(b)) * (file(a) - file(s))
    /\ Abs(rank(a) - rank(s)) + Abs(rank(s) - rank(b)) = Abs(rank(a) - rank(b))
    /\ Abs(file(a) - file(s)) + Abs(file(s) - file(b)) = Abs(file(a) - file(b))

RefClear(pieces, a, b) == \A s \in AllSquares : RefBetween(a, b, s) => pieces[s] = None

\* a piece of colour by standing on s attacks the square t
RefAttacks(pieces, s, t, by) ==
    LET p == pieces[s]
        dr == rank(t) - rank(s)
        df == file(t) - file(s)
    IN /\ p # None /\ color_of(p) = by /\ s # t
       /\ \/ is_pawn(p) /\ dr = (IF by = White THEN -1 ELSE 1) /\ Abs(df) = 1
          \/ is_knight(p) /\ {Abs(dr), Abs(df)} = {1, 2}
          \/ is_king(p) /\ Abs(dr) <= 1 /\ Abs(df) <= 1
          \/ (is_rook(p) \/ is_queen(p)) /\ RefStraight(s, t) /\ RefClear(pieces, s, t)
          \/ (is_bishop(p) \/ is_queen(p)) /\ RefDiagonal(s, t) /\ RefClear(pieces, s, t)

RefAttacked(pieces, t, by) == \E s \in AllSquares : RefAttacks(pieces, s, t, by)

RefKing(pieces, color) == CHOOSE s \in AllSquares : pieces[s] = king(color)

RefInCheck(pieces, color) == RefAttacked(pieces, RefKing(pieces, color), enemy(color))

\* the moves of the piece on s that the rules allow before the king's safety is
\* looked at, in the encoding of move.rs (an en-passant move ends on the captured pawn)
RefPawnMoves(b, s, c) ==
    LET dir == IF c = White THEN -1 ELSE 1
        home == IF c = White THEN 6 ELSE 1
        last_rank == IF c = White THEN 0 ELSE 7
        kinds == {MOVE_PROMOTION_PIECE_KNIGHT, MOVE_PROMOTION_PIECE_BISHOP,
                  MOVE_PROMOTION_PIECE_ROOK, MOVE_PROMOTION_PIECE_QUEEN}
        Emit(t) == IF rank(t) = last_rank
                   THEN {new_move(s, t, MOVE_TYPE_PROMOTION + k) : k \in kinds}
                   ELSE {new_move(s, t, 0)}
        one == s + 8 * dir
        two == s + 16 * dir
        pushes == IF b.pieces[one] = None
                  THEN Emit(one) \cup (IF rank(s) = home /\ b.pieces[two] = None
                                       THEN {new_move(s, two, 0)} ELSE {})
                  ELSE {}
        sides == {t \in AllSquares : rank(t) = rank(s) + dir /\ Abs(file(t) - file(s)) = 1}
        captures == UNION {Emit(t) : t \in {u \in sides : b.pieces[u] # None
                                                          /\ color_of(b.pieces[u]) # c}}
        passing == {new_move(s, from_rf(rank(s), file(t)), MOVE_TYPE_EN_PASSANT) :
                       t \in {u \in sides : u = b.en_passant
                                            /\ b.pieces[from_rf(rank(s), file(u))]
                                                 = pawn(enemy(c))}}
    IN pushes \cup captures \cup passing

RefPieceMoves(b, s, c) ==
    LET p == b.pieces[s]
        free == {t \in AllSquares : b.pieces[t] = None \/ color_of(b.pieces[t]) # c}
        reach == {t \in free :
                     LET dr == Abs(rank(t) - rank(s))
                         df == Abs(file(t) - file(s))
                     IN \/ is_knight(p) /\ {dr, df} = {1, 2}
                        \/ is_king(p) /\ dr <= 1 /\ df <= 1 /\ t # s
                        \/ (is_rook(p) \/ is_queen(p)) /\ RefStraight(s, t)
                             /\ RefClear(b.pieces, s, t)
                        \/ (is_bishop(p) \/ is_queen(p)) /\ RefDiagonal(s, t)
                             /\ RefClear(b.pieces, s, t)}
    IN {new_move(s, t, 0) : t \in reach}

\* castling: the right is held, the squares between king and rook are empty, and the
\* king is not attacked where it stands, where it passes and where it lands
RefCastles(b, c) ==
    LET e == IF c = White THEN E1 ELSE E8
        safe(S) == \A t \in S : ~RefAttacked(b.pieces, t, enemy(c))
        empty(S) == \A t \in S : b.pieces[t] = None
        qs == /\ can_castle_qs(b, c) /\ empty({e - 1, e - 2, e - 3})
              /\ safe({e, e - 1, e - 2})
        ks == /\ can_castle_ks(b, c) /\ empty({e + 1, e + 2}) /\ safe({e, e + 1, e + 2})
    IN (IF qs THEN {new_move(e, e - 2, MOVE_TYPE_CASTLE + MOVE_CASTLE_SIDE_QS)} ELSE {})
       \cup (IF ks THEN {new_move(e, e + 2, MOVE_TYPE_CASTLE + MOVE_CASTLE_SIDE_KS)} ELSE {})

RefPseudoLegal(b) ==
    LET c == b.current_color
        mine == {s \in AllSquares : b.pieces[s] # None /\ color_of(b.pieces[s]) = c}
    IN UNION {IF is_pawn(b.pieces[s]) THEN RefPawnMoves(b, s, c) ELSE RefPieceMoves(b, s, c) :
                 s \in mine}
       \cup RefCastles(b, c)

\* the piece-square array after a move, by the rules
RefApply(b, m) ==
    LET s == get_move_start(m)
        t == get_move_end(m)
        c == b.current_color
        type == get_move_type(m)
        k == get_move_piece(m)
        promoted == CASE k = MOVE_PROMOTION_PIECE_KNIGHT -> knight(c)
                      [] k = MOVE_PROMOTION_PIECE_BISHOP -> bishop(c)
                      [] k = MOVE_PROMOTION_PIECE_ROOK -> rook(c)
                      [] OTHER -> queen(c)
        corner == IF t < s THEN (s \div 8) * 8 ELSE (s \div 8) * 8 + 7
    IN CASE type = MOVE_TYPE_EN_PASSANT ->
              [q \in AllSquares |-> IF q = s \/ q = t THEN None
                                    ELSE IF q = b.en_passant THEN b.pieces[s]
                                    ELSE b.pieces[q]]
         [] type = MOVE_TYPE_CASTLE ->
              [q \in AllSquares |-> IF q = s \/ q = corner THEN None
                                    ELSE IF q = t THEN king(c)
                                    ELSE IF q = (s + t) \div 2 THEN rook(c)
                                    ELSE b.pieces[q]]
         [] type = MOVE_TYPE_PROMOTION ->
              [q \in AllSquares |-> IF q = s THEN None
                                    ELSE IF q = t THEN promoted
                                    ELSE b.pieces[q]]
         [] OTHER ->
              [q \in AllSquares |-> IF q = s THEN None
                                    ELSE IF q = t THEN b.pieces[s]
                                    ELSE b.pieces[q]]

RefLegalMoves(b) ==
    {m \in RefPseudoLegal(b) : ~RefInCheck(RefApply(b, m), b.current_color)}

\* the set of the moves a MoveList holds
MovesOf(ml) == {ml[i] : i \in 1 .. Len(ml)}

\* ------------------------------------------------------------- properties

\* C1: when undo_move has undone a generated move that make_move had made on a
\* Board B, the Board equals B in every field: side to move, halfmove clock, fullmove
\* counter, castling mask, en-passant target, piece-square array, the twelve piece
\* bitboards, the two colour bitboards and the Zobrist hash.
C1_MakeUndoRestoresBoard ==
    last.op = "undo" =>
        /\ board.current_color = last.prev.current_color
        /\ board.fifty_move = last.prev.fifty_move
        /\ board.full_move_count = last.prev.full_move_count
        /\ board.castling = last.prev.castling
        /\ board.en_passant = last.prev.en_passant
        /\ board.pieces = last.prev.pieces
        /\ board.piece_bitboards = last.prev.piece_bitboards
        /\ board.combined_bitboards = last.prev.combined_bitboards
        /\ board.zobrist_hash = last.prev.zobrist_hash

\* an en-passant capture has been made and undone (castles and capturing
\* promotions are undone in other states)
C1_UndoneEnPassant ==
    /\ last.op = "undo"
    /\ get_move_type(last.move) = MOVE_TYPE_EN_PASSANT
    /\ last.prev.en_passant # None
    /\ board = last.prev

\* C2: after make_move of a generated move, the king of the side that just moved is
\* attacked by no piece of the side now to move.
C2_MoverNotLeftInCheck ==
    last.op = "make" => ~RefInCheck(board.pieces, enemy(board.current_color))

\* a move made out of a check, with the king safe afterwards
C2_MovedOutOfCheck ==
    /\ last.op = "make"
    /\ RefInCheck(last.prev.pieces, last.prev.current_color)
    /\ ~RefInCheck(board.pieces, enemy(board.current_color))

C4_BitboardsAgreeWithArray ==
    /\ \A s \in AllSquares : \A p \in Pieces :
           (board.pieces[s] = p) <=> is_bit_set(board.piece_bitboards[p], s)
    /\ \A c \in {White, Black} :
           board.combined_bitboards[c]
               = UNION {board.piece_bitboards[p] : p \in {q \in Pieces : color_of(q) = c}}
    /\ \A p \in Pieces : \A q \in Pieces :
           p # q => board.piece_bitboards[p] \cap board.piece_bitboards[q] = {}

\* a capture has been made and the captured piece is gone from array and bitboards
C4_AfterCapture ==
    /\ last.op = "make"
    /\ last.prev.pieces[get_move_end(last.move)] # None
    /\ get_move_type(last.move) = 0
    /\ ~is_bit_set(board.piece_bitboards[last.prev.pieces[get_move_end(last.move)]],
                   get_move_end(last.move))
    /\ Len(hist) = 2

\* C5: after Board::new and after any make_move and undo_move on generated moves,
\* zobrist_hash is the XOR of zobrist_table[s][pieces[s]] over the occupied squares s.
C5_HashIsXorOfOccupied ==
    board.zobrist_hash = {ZKey(s, board.pieces[s]) : s \in {t \in AllSquares :
                                                              board.pieces[t] # None}}

\* a castle has been made: king and rook both moved in the hash
C5_AfterCastle ==
    /\ last.op = "make"
    /\ get_move_type(last.move) = MOVE_TYPE_CASTLE
    /\ ZKey(get_move_end(last.move), king(enemy(board.current_color))) \in board.zobrist_hash
    /\ board.zobrist_hash # last.prev.zobrist_hash

\* the castling bit of the rook whose home corner is sq, 0 for another square
CornerRight(sq, color) ==
    CASE sq = A1 /\ color = White -> WHITE_CASTLE_QS
      [] sq = H1 /\ color = White -> WHITE_CASTLE_KS
      [] sq = A8 /\ color = Black -> BLACK_CASTLE_QS
      [] sq = H8 /\ color = Black -> BLACK_CASTLE_KS
      [] OTHER -> 0

CastleBits == {WHITE_CASTLE_KS, WHITE_CASTLE_QS, BLACK_CASTLE_KS, BLACK_CASTLE_QS}

\* the Board right after the k-th made move of the current line
AfterFrame(k) == IF k < Len(hist) THEN hist[k + 1].prev ELSE board

\* C7: along the line of made moves, no make_move sets a castling bit that was
\* clear, and the right is clear from then on once the king has moved (by a normal
\* move or by castling) or the rook has left its home corner or has been captured
\* on it (by a normal or a promotion capture).
C7_CastlingRightsOnlyFall ==
    \A k \in 1 .. Len(hist) :
        LET before == hist[k].prev
            s == get_move_start(hist[k].move)
            t == get_move_end(hist[k].move)
            p == before.pieces[s]
            x == before.pieces[t]
        IN /\ \A bit \in CastleBits :
                  HasBit(AfterFrame(k).castling, bit) => HasBit(before.castling, bit)
           /\ \A j \in k .. Len(hist) :
                  /\ is_king(p) =>
                        IF color_of(p) = White
                        THEN ~HasBit(AfterFrame(j).castling, WHITE_CASTLE_KS)
                             /\ ~HasBit(AfterFrame(j).castling, WHITE_CASTLE_QS)
                        ELSE ~HasBit(AfterFrame(j).castling, BLACK_CASTLE_KS)
                             /\ ~HasBit(AfterFrame(j).castling, BLACK_CASTLE_QS)
                  /\ (is_rook(p) /\ CornerRight(s, color_of(p)) # 0) =>
                        ~HasBit(AfterFrame(j).castling, CornerRight(s, color_of(p)))
                  /\ (x # None /\ is_rook(x) /\ CornerRight(t, color_of(x)) # 0
                        /\ get_move_type(hist[k].move) # MOVE_TYPE_EN_PASSANT) =>
                        ~HasBit(AfterFrame(j).castling, CornerRight(t, color_of(x)))

\* a pawn has promoted by capturing the rook on a8 while Black still held the
\* queenside right, and a second move has been made since
C7_RookCapturedByPromotion ==
    /\ Len(hist) = 2
    /\ get_move_type(hist[1].move) = MOVE_TYPE_PROMOTION
    /\ get_move_end(hist[1].move) = A8
    /\ hist[1].prev.pieces[A8] = BlackRook
    /\ HasBit(hist[1].prev.castling, BLACK_CASTLE_QS)
    /\ ~HasBit(board.castling, BLACK_CASTLE_QS)

CastlingField(fen) == split_whitespace(fen)[3]

\* C6 as stated: for every canonical FEN text x, with the castling field written
\* in the order K, Q, k, q or as '-', Board::new(x).to_fen() = x.
C6_RoundTripKQkq ==
    (pc = "printed" /\ CastlingField(fen_in) \in FenCastlingsKQkq) => fen_out = fen_in

\* C6, amended: for every FEN text x of six fields whose castling field is written
\* in the order Q, q, K, k or as '-', Board::new(x).to_fen() = x.
C6_RoundTripQqKk ==
    (pc = "printed" /\ CastlingField(fen_in) \in FenCastlingsQqKk) => fen_out = fen_in

\* a text with all four rights, an en-passant square and a two-digit clock has
\* been loaded and printed back
C6_PrintedAllRights ==
    /\ pc = "printed"
    /\ CastlingField(fen_in) = <<"Q", "q", "K", "k">>
    /\ split_whitespace(fen_in)[4] = <<"e", "6">>
    /\ split_whitespace(fen_in)[5] = <<"1", "2">>
    /\ fen_out = fen_in

\* the move m, legal on b, checkmates the side that answers it
RefMates(b, m) ==
    LET after == make_move(b, m).board
    IN RefInCheck(after.pieces, after.current_color) /\ RefLegalMoves(after) = {}

\* C8: whenever the side to move has a move that checkmates, find_best_move(1)
\* returns a move that checkmates.
C8_MateInOneFoundAtDepthOne ==
    (pc = "found" /\ search.max_depth = 1 /\ \E m \in RefLegalMoves(board) : RefMates(board, m))
        => (search.best_move # None /\ RefMates(board, search.best_move))

C17_BitScanYieldsLowestBit ==
    word.op \in {"lsb_idx", "pop_lsb"} =>
        /\ word.index \subseteq 0 .. 5
        /\ word.result = Min(word.prev)
        /\ word.op = "lsb_idx" => word.bb = word.prev
        /\ word.op = "pop_lsb" => word.bb = word.prev \ {Min(word.prev)}

\* the square s XOR 56: the same file on the rank mirrored top to bottom
MirrorSquare(s) == from_rf(7 - rank(s), file(s))

\* material plus piece-square value with the table read at s for White and at
\* s XOR 56 for Black
RECURSIVE MirroredScoreFrom(_, _)
MirroredScoreFrom(pieces, sq) ==
    IF sq = 64 THEN 0
    ELSE (IF pieces[sq] = None THEN 0
          ELSE IF color_of(pieces[sq]) = White
               THEN PIECE_VALUE[pieces[sq] + 1] + SQ_VALUE[(pieces[sq] % 6) + 1][sq + 1]
               ELSE PIECE_VALUE[pieces[sq] + 1]
                    - SQ_VALUE[(pieces[sq] % 6) + 1][MirrorSquare(sq) + 1])
         + MirroredScoreFrom(pieces, sq + 1)

\* C18: the score init_score leaves in the evaluator is the sum over the occupied
\* squares of material plus piece-square value, a White piece on s counting
\* +table[s] and a Black piece on s counting -table[s XOR 56].
C18_InitScoreMirrorsBlack ==
    (pc = "loop" /\ search.i = 1) => search.evaluator = MirroredScoreFrom(board.pieces, 0)

\* the largest element of a non-empty set of integers
SetMax(S) == CHOOSE x \in S : \A y \in S : y <= x

\* negamax without alpha and beta: every move of every node is searched
RECURSIVE minimax(_, _, _)
minimax(depth, b, evaluator) ==
    IF depth = 0 THEN score(evaluator, b.current_color)
    ELSE LET Generated(g) ==
                 IF Len(g.ml) = 0
                 THEN (IF ~is_in_check(g.board) THEN 0 ELSE I32_MIN_PLUS_1)
                 ELSE IF is_draw(g.board) THEN 0
                 ELSE SetMax({0 - minimax(depth - 1, make_move(g.board, g.ml[i]).board,
                                          evaluator + evalutor_diff(g.board, g.ml[i]))
                              : i \in 1 .. Len(g.ml)})
         IN Generated(gen_moves(b))

\* the unpruned value of the subtree of the root move my_move
RootValue(depth, b, my_move) ==
    0 - minimax(depth - 1, make_move(b, my_move).board,
                init_score(b) + evalutor_diff(b, my_move))

RECURSIVE Pruned(_, _, _, _, _)
RECURSIVE PrunedLoop(_, _, _, _, _, _, _, _)
PrunedLoop(depth, ml, i, alpha, beta, best, b, evaluator) ==
    IF i > Len(ml) THEN FALSE
    ELSE LET Made(made, diff) ==
                 LET Searched(best1) ==
                         \/ Max(alpha, best1) >= beta /\ i < Len(ml)
                         \/ /\ Max(alpha, best1) < beta
                            /\ PrunedLoop(depth, ml, i + 1, Max(alpha, best1), beta, best1, b,
                                          evaluator)
                 IN \/ Pruned(depth - 1, 0 - beta, 0 - alpha, made.board, evaluator + diff)
                    \/ Searched(Max(best, 0 - negamax(depth - 1, 0 - beta, 0 - alpha,
                                                      made.board, evaluator + diff).best))
         IN Made(make_move(b, ml[i]), evalutor_diff(b, ml[i]))

Pruned(depth, alpha, beta, b, evaluator) ==
    IF depth = 0 THEN FALSE
    ELSE LET Generated(g) ==
                 /\ Len(g.ml) > 0
                 /\ ~is_draw(g.board)
                 /\ PrunedLoop(depth, order_moves(g.board, g.ml), 1, alpha, beta,
                               I32_MIN_PLUS_1, g.board, evaluator)
         IN Generated(gen_moves(b))

C20_SearchRestoresState ==
    pc \in {"loop", "found"} =>
        (board = last.prev /\ search.evaluator = init_score(board))

\* find_best_move(3) has returned after at least two root moves, and below the
\* first of them a cut-off broke a loop
C20_DeepSearchReturned ==
    /\ pc = "found"
    /\ search.max_depth = 3
    /\ Len(search.list) >= 2
    /\ Pruned(2, I32_MIN_PLUS_1, I32_MAX - 1, make_move(board, search.list[1]).board,
              init_score(board) + evalutor_diff(board, search.list[1]))

\* C11: the k-th call of find_best_move that iterative_deepening makes has search
\* depth k as its first argument.
C11_KthCallSearchesDepthK ==
    \A k \in 1 .. Len(deepen.calls) : deepen.calls[k] = k

C13_SearchNeverPanics ==
    pc # "panic"

\* ------------------------------------------------------- the command loop

\* the tokens of the line the loop has handled last
LineTokens == split_whitespace(uci.line)

\* the last line is a position fen command with its six fields
PositionFenLine ==
    /\ uci.lines >= 1
    /\ Len(LineTokens) >= 8
    /\ LineTokens[1] = KwPosition
    /\ LineTokens[2] = KwFen

\* what load_fen makes of the six fields of the last line, on the Board before it
LoadedFen == load_fen(last.prev, FenOfTokens(LineTokens))

\* C14: a position fen command whose FEN is malformed has the error reported and
\* handled: the loop goes on, with the Board as it was before the command.
C14_MalformedFenLeavesBoard ==
    (PositionFenLine /\ LoadedFen.status # "ok") => (pc = "uci" /\ board = last.prev)

\* the word that precedes the moves of a position command
KwMoves == <<"m", "o", "v", "e", "s">>

\* the index of "moves" in a position line that carries moves: 0 when the last line is
\* not such a line, or when its position did not load
MovesAt ==
    IF uci.lines >= 1 /\ Len(LineTokens) >= 4 /\ LineTokens[1] = KwPosition
       /\ LineTokens[2] = KwStartpos /\ LineTokens[3] = KwMoves
    THEN 3
    ELSE IF PositionFenLine /\ Len(LineTokens) >= 10 /\ LineTokens[9] = KwMoves
            /\ LoadedFen.status = "ok"
    THEN 9
    ELSE 0

\* the position the last line names, before its moves
NamedPosition == IF MovesAt = 3 THEN BoardNew(STARTING_FEN).board ELSE LoadedFen.board

\* the generated moves of b whose text is the token
MovesNamed(b, token) ==
    {my_move \in {gen_moves(b).ml[i] : i \in 1 .. Len(gen_moves(b).ml)} :
        move_to_string(my_move) = token}

\* whether tokens[k], tokens[k + 1], ... lead from b to the Board target: each token is
\* played as a generated move of that text, up to the first token that names none
RECURSIVE LegalPrefixLeads(_, _, _, _)
LegalPrefixLeads(b, tokens, k, target) ==
    IF k > Len(tokens) \/ MovesNamed(b, tokens[k]) = {} THEN target = b
    ELSE \E my_move \in MovesNamed(b, tokens[k]) :
            LegalPrefixLeads(make_move(b, my_move).board, tokens, k + 1, target)

UnknownCommand ==
    /\ uci.lines >= 1
    /\ LineTokens # <<>>
    /\ LineTokens[1] \notin {KwIsready, KwUcinewgame, KwUci, KwQuit, KwD, KwPosition, KwGo}

\* the last line is a command cut short: position, position fen with fewer than six
\* fields, go depth with no number, go perft with no depth or one that is no number
TruncatedCommand ==
    /\ uci.lines >= 1
    /\ LineTokens # <<>>
    /\ \/ /\ LineTokens[1] = KwPosition
          /\ \/ Len(LineTokens) = 1
             \/ (LineTokens[2] = KwFen /\ Len(LineTokens) < 8)
       \/ /\ LineTokens[1] = KwGo
          /\ Len(LineTokens) >= 2
          /\ \/ LineTokens[Len(LineTokens)] = KwDepth
             \/ (LineTokens[2] = KwPerft /\ Len(LineTokens) = 2)
             \/ (LineTokens[2] = KwPerft /\ parse_usize(LineTokens[3]) = None)

\* C16: an unknown or truncated command is ignored, the loop going on to the next line
\* with the Board untouched; only quit ends the loop.
C16_LoopToleratesCommands ==
    /\ (UnknownCommand \/ TruncatedCommand) => (pc = "uci" /\ board = last.prev)
    /\ pc = "quit" => (LineTokens # <<>> /\ LineTokens[1] = KwQuit)

\* the running score of the search at the node reached by the made moves of hist from
\* index k on: update_score(info.evalutor_diff) after every make_move (search.rs:52,
\* 112), from the score sum of the first k - 1 moves
RECURSIVE RunningScore(_, _, _)
RunningScore(frames, k, sum) ==
    IF k > Len(frames) THEN sum
    ELSE RunningScore(frames, k + 1, sum + evalutor_diff(frames[k].prev, frames[k].move))

\* C21: for every generated move m made on a Board B, init_score(B) plus the delta of
\* m's type (standard_diff, promotion_diff, castle_diff, en_passant_diff) equals
\* init_score of the Board after make_move(m); so the score that starts at init_score
\* of the root and takes the delta of every move made on the way equals init_score of
\* the node reached.
C21_DeltaAgreesWithInitScore ==
    /\ last.op = "make" =>
           init_score(last.prev) + evalutor_diff(last.prev, last.move) = init_score(board)
    /\ (hist # <<>> /\ last.op \in {"make", "gen"}) =>
           RunningScore(hist, 1, init_score(hist[1].prev)) = init_score(board)

\* an en-passant capture has been made: the delta has taken the captured pawn off the
\* square beside the target
C21_EnPassantDeltaApplied ==
    /\ last.op = "make"
    /\ get_move_type(last.move) = MOVE_TYPE_EN_PASSANT
    /\ get_move_end(last.move) # last.prev.en_passant
    /\ board.pieces[get_move_end(last.move)] = None
    /\ init_score(board) # init_score(last.prev)
    /\ RunningScore(hist, 1, init_score(hist[1].prev)) = init_score(board)

\* C22: after gen_moves has returned, every field of the Board (the pawn and colour
\* bitboards that en-passant validation clears and sets included) equals its value
\* before the call, in every position with or without an en-passant target.
C22_GenMovesLeavesBoard ==
    last.op = "gen" => board = last.prev

\* the castle moves a MoveList holds
CastlesOf(ml) == {m \in MovesOf(ml) : get_move_type(m) = MOVE_TYPE_CASTLE}

\* C23: gen_moves emits a castle move for the side to move only if that side holds the
\* right for that wing, the squares between king and rook are empty (b, c, d or f, g),
\* the king is not attacked, and no square the king crosses or lands on is attacked by
\* the enemy; with the king in check no castle move is emitted.
C23_CastleOnlyWhenLegal ==
    last.op = "gen" =>
        /\ CastlesOf(move_list) \subseteq RefCastles(last.prev, last.prev.current_color)
        /\ RefInCheck(last.prev.pieces, last.prev.current_color) => CastlesOf(move_list) = {}

\* Black, with both rights and both wings empty, is given the queen-side castle and
\* refused the king-side one because a White rook attacks f8
C23_CastleRefusedAcrossAttack ==
    /\ last.op = "gen"
    /\ board.current_color = Black
    /\ can_castle_ks(board, Black) /\ can_castle_qs(board, Black)
    /\ board.pieces[F8] = None /\ board.pieces[G8] = None
    /\ RefAttacked(board.pieces, F8, White)
    /\ ~RefInCheck(board.pieces, Black)
    /\ CastlesOf(move_list) = {new_move(E8, C8, MOVE_TYPE_CASTLE + MOVE_CASTLE_SIDE_QS)}

\* the piece-square array with the king of colour c taken off
WithoutKing(pieces, c) == [pieces EXCEPT ![RefKing(pieces, c)] = None]

\* the moves of the list that move the king of the side to move and are no castle
KingStepsOf(b, ml) ==
    {m \in MovesOf(ml) : /\ get_move_start(m) = RefKing(b.pieces, b.current_color)
                         /\ get_move_type(m) # MOVE_TYPE_CASTLE}

\* t is a square next to s
RefNextTo(s, t) == s # t /\ Abs(rank(s) - rank(t)) <= 1 /\ Abs(file(s) - file(t)) <= 1

\* the squares the rules let the king of the side to move step to: next to it, not
\* held by a piece of its own colour and attacked by no enemy piece once the king
\* has left its square
RefKingSteps(b) ==
    {t \in AllSquares :
        /\ RefNextTo(RefKing(b.pieces, b.current_color), t)
        /\ b.pieces[t] = None \/ color_of(b.pieces[t]) # b.current_color
        /\ ~RefAttacked(WithoutKing(b.pieces, b.current_color), t, enemy(b.current_color))}

\* C24: every king move gen_moves emits that is no castle is a default move to a
\* square next to the king that holds no friendly piece and is attacked by no enemy
\* piece when the sliding attacks are taken on the occupancy without the moving king;
\* so a king checked by a slider is not given the step away along the checking line.
C24_KingStepsOffAttackedSquares ==
    last.op = "gen" =>
        \A m \in KingStepsOf(last.prev, move_list) :
            /\ get_move_type(m) = 0 /\ get_move_piece(m) = 0
            /\ get_move_end(m) \in RefKingSteps(last.prev)

\* the king is checked by a rook or queen along a line, the square behind it on that
\* line is empty and attacked only through the king's square, and the list holds king
\* moves but not the step to that square
C24_NoStepAlongCheckingLine ==
    /\ last.op = "gen"
    /\ RefInCheck(board.pieces, board.current_color)
    /\ KingStepsOf(board, move_list) # {}
    /\ \E t \in AllSquares :
          /\ RefNextTo(RefKing(board.pieces, board.current_color), t)
          /\ board.pieces[t] = None
          /\ ~RefAttacked(board.pieces, t, enemy(board.current_color))
          /\ RefAttacked(WithoutKing(board.pieces, board.current_color), t,
                         enemy(board.current_color))
          /\ \A m \in KingStepsOf(board, move_list) : get_move_end(m) # t

\* the squares of the enemy pieces that attack the king of the side to move
RefCheckers(b) ==
    {s \in AllSquares :
        RefAttacks(b.pieces, s, RefKing(b.pieces, b.current_color), enemy(b.current_color))}

\* the moves of the list that do not move the king and are no en-passant capture
EvasionsOf(b, ml) ==
    {m \in MovesOf(ml) : /\ get_move_start(m) # RefKing(b.pieces, b.current_color)
                         /\ get_move_type(m) # MOVE_TYPE_EN_PASSANT}

\* the squares a move may end on to meet the check of the piece on checker: its own
\* square, and for a bishop, rook or queen the squares strictly between it and the king
RefEvasionSquares(b, checker) ==
    {checker}
    \cup (IF is_bishop(b.pieces[checker]) \/ is_rook(b.pieces[checker])
             \/ is_queen(b.pieces[checker])
          THEN {t \in AllSquares :
                   RefBetween(RefKing(b.pieces, b.current_color), checker, t)}
          ELSE {})

\* C25: with exactly one enemy piece attacking the king, every emitted move that is
\* neither a king move nor an en-passant capture ends on the checker's square or, if
\* the checker is a bishop, rook or queen, on a square strictly between king and
\* checker; with two pieces attacking the king only king moves are emitted.
C25_CheckIsMet ==
    last.op = "gen" =>
        /\ Cardinality(RefCheckers(last.prev)) = 1 =>
               \A m \in EvasionsOf(last.prev, move_list) :
                   \A checker \in RefCheckers(last.prev) :
                       get_move_end(m) \in RefEvasionSquares(last.prev, checker)
        /\ Cardinality(RefCheckers(last.prev)) = 2 =>
               \A m \in MovesOf(move_list) :
                   get_move_start(m) = RefKing(last.prev.pieces, last.prev.current_color)

\* one bishop, rook or queen checks the king, and the list holds a move of another
\* piece onto a square between the two as well as king moves
C25_SliderCheckBlocked ==
    /\ last.op = "gen"
    /\ Cardinality(RefCheckers(board)) = 1
    /\ \E checker \in RefCheckers(board) :
          /\ ~is_knight(board.pieces[checker]) /\ ~is_pawn(board.pieces[checker])
          /\ \E m \in EvasionsOf(board, move_list) :
                RefBetween(RefKing(board.pieces, board.current_color), checker,
                           get_move_end(m))
    /\ KingStepsOf(board, move_list) # {}

\* my_move is a default-type move of a pawn over two ranks on the Board b
IsDoublePush(b, my_move) ==
    /\ get_move_type(my_move) = 0
    /\ is_pawn(b.pieces[get_move_start(my_move)])
    /\ Abs(get_move_start(my_move) - get_move_end(my_move)) = 16

\* C26: after make_move the en-passant target is the square (start + end) / 2 if the
\* move was a default-type move of a pawn with |start - end| = 16 and None after every
\* other move; so a target present after a move is the empty square directly behind
\* the pawn that has just made a double push.
C26_TargetFollowsDoublePush ==
    last.op = "make" =>
        /\ board.en_passant =
               IF IsDoublePush(last.prev, last.move)
               THEN (get_move_start(last.move) + get_move_end(last.move)) \div 2
               ELSE None
        /\ board.en_passant # None =>
               /\ board.pieces[board.en_passant] = None
               /\ board.pieces[get_move_end(last.move)] = pawn(enemy(board.current_color))
               /\ file(board.en_passant) = file(get_move_end(last.move))
               /\ rank(board.en_passant) - rank(get_move_end(last.move))
                      = (IF board.current_color = Black THEN 1 ELSE -1)

\* a double push has been made beside an enemy pawn and has left its target, and the
\* move before it had left none
C26_TargetSetBesideEnemyPawn ==
    /\ last.op = "make"
    /\ IsDoublePush(last.prev, last.move)
    /\ last.prev.en_passant = None
    /\ board.en_passant = (get_move_start(last.move) + get_move_end(last.move)) \div 2
    /\ \E s \in AllSquares :
          /\ RefNextTo(s, get_move_end(last.move)) /\ rank(s) = rank(get_move_end(last.move))
          /\ board.pieces[s] = pawn(board.current_color)

\* the value of a node whose side to move has no legal move: mate or stalemate
TerminalValue(node) ==
    IF RefInCheck(node.pieces, node.current_color) THEN I32_MIN_PLUS_1 ELSE 0

\* the node of the root move find_best_move has searched last
LastRootNode == make_move(board, search.list[search.i - 1]).board

RefRayAttack(kind, sq, occupancy) ==
    {t \in AllSquares :
        /\ IF kind = "rook" THEN RefStraight(sq, t) ELSE RefDiagonal(sq, t)
        /\ \A s \in AllSquares : RefBetween(sq, t, s) => s \notin occupancy}

C29_ReloadedHashIsXorOfOccupied ==
    (pc = "uci" /\ uci.status = "loaded" /\ split_whitespace(uci.line)[2] = KwFen) =>
        board.zobrist_hash = {ZKey(s, board.pieces[s]) : s \in {t \in AllSquares :
                                                                  board.pieces[t] # None}}

====
